---- MODULE Spec2Model ----
(***************************************************************************)
(* Market-data ingestion engine of Omni: the BinanceProvider (symbol       *)
(* router, REST bootstrap, depth replica with snapshot/diff reconciliation *)
(* and fire-and-forget resync) and the CoreDataEngine facade with its      *)
(* SymbolState / TimeframeState holders.                                   *)
(***************************************************************************)
EXTENDS Integers, Sequences, FiniteSets, TLC

\* ------------------------------------------------------------------------
\* Bounds of the model and constants of the program
\* ------------------------------------------------------------------------

\* Largest small update id; ids beyond the gap tolerance are derived from it.
MaxId == 3
\* Resync tasks that may be in flight at once (the code has no bound).
MaxResync == 2
\* Requests that may sit in the router queue (asyncio.Queue is unbounded).
MaxQueue == 2
\* Entries a cached deque may reach (the deques hold 1200 and 2000).
MaxLog == 3
\* Clock ticks (50 ms each) a timed run lasts.
MaxTick == 48
\* Largest capacity a CacheManager is constructed with.
MaxCap == 2
\* Clock ticks a timed run of the depth supervisor lasts.
MaxDepthTick == 6

\* binance_provider.py:366  first_id > last + 1000
GapTolerance == 1000
\* binance_provider.py:389  [:50]
TopN == 50
\* cache_manager.py:26  max_candles, max_trades
MaxCandles == 1200
MaxTrades == 2000
\* binance_provider.py:124  0.4 s, in ticks of 50 ms
TickerInterval == 8
\* binance_provider.py:243  0.1 s, in ticks of 50 ms
DepthInterval == 2

\* Python's None where a tuple may stand: no key, no frame, no result
None == <<>>

\* No list is held by a caller of get_history or get_trades.
NoList == [kind |-> "none", sym |-> "", tf |-> "", list |-> <<>>, shared |-> FALSE]

\* ------------------------------------------------------------------------
\* Strings: str.upper(), str.lower(), float()
\* ------------------------------------------------------------------------

\* str.upper() on the strings the model uses
Upper(s) ==
    CASE s \in {"BTCUSDT", "btcusdt", "BtcUsdt"} -> "BTCUSDT"
      [] s \in {"ETHUSDT", "ethusdt"} -> "ETHUSDT"
      [] s \in {"SOLUSDT", "solusdt"} -> "SOLUSDT"
      [] s \in {"1m", "1M"} -> "1M"
      [] s \in {"5m", "5M"} -> "5M"
      [] s \in {"1h", "1H"} -> "1H"
      [] OTHER -> s

\* str.lower() on the strings the model uses
Lower(s) ==
    CASE s \in {"BTCUSDT", "btcusdt", "BtcUsdt"} -> "btcusdt"
      [] s \in {"ETHUSDT", "ethusdt"} -> "ethusdt"
      [] s \in {"SOLUSDT", "solusdt"} -> "solusdt"
      [] s \in {"1m", "1M"} -> "1m"
      [] s \in {"5m", "5M"} -> "5m"
      [] s \in {"1h", "1H"} -> "1h"
      [] OTHER -> s

\* Decimal price strings of a deep book, "200" to "309"
LevelStrings ==
    <<"200", "201", "202", "203", "204", "205", "206", "207", "208", "209", "210", "211",
      "212", "213", "214", "215", "216", "217", "218", "219", "220", "221", "222", "223",
      "224", "225", "226", "227", "228", "229", "230", "231", "232", "233", "234", "235",
      "236", "237", "238", "239", "240", "241", "242", "243", "244", "245", "246", "247",
      "248", "249", "250", "251", "252", "253", "254", "255", "256", "257", "258", "259",
      "260", "261", "262", "263", "264", "265", "266", "267", "268", "269", "270", "271",
      "272", "273", "274", "275", "276", "277", "278", "279", "280", "281", "282", "283",
      "284", "285", "286", "287", "288", "289", "290", "291", "292", "293", "294", "295",
      "296", "297", "298", "299", "300", "301", "302", "303", "304", "305", "306", "307",
      "308", "309">>

\* float() on the price and quantity strings of the payloads
ParseFloat(s) ==
    CASE s = "99" -> 99
      [] s = "100" -> 100
      [] s = "100.0" -> 100
      [] s = "101" -> 101
      [] s = "-1" -> -1
      [] s = "0" -> 0
      [] s = "0.0" -> 0
      [] s = "5" -> 5
      [] s = "3" -> 3
      [] OTHER -> 199 + (CHOOSE i \in 1 .. Len(LevelStrings) : LevelStrings[i] = s)

\* ------------------------------------------------------------------------
\* Price maps (Dict[float, float]) and their sorted listings
\* ------------------------------------------------------------------------

EmptyMap == [p \in {} |-> 0]

\* dict.pop(price, None): the map without the key (as an explicit table)
MapPop(m, price) == [p \in (DOMAIN m) \ {price} |-> m[p]] @@ EmptyMap

\* dict[price] = qty: the new entry takes precedence over the old map
MapSet(m, price, qty) == (price :> qty) @@ m

RECURSIVE SortedBy(_, _)
\* sorted(m.items(), key=price, reverse=desc) as a sequence of <<price, qty>>
SortedBy(m, desc) ==
    IF DOMAIN m = {} THEN <<>>
    ELSE LET first == CHOOSE p \in DOMAIN m :
                        \A q \in DOMAIN m : IF desc THEN q <= p ELSE p <= q
         IN <<(<<first, m[first]>>)>> \o SortedBy(MapPop(m, first), desc)

\* list[-n:]
TakeLast(s, n) == IF Len(s) <= n THEN s ELSE SubSeq(s, Len(s) - n + 1, Len(s))

\* list[:n]
Take(s, n) == IF Len(s) <= n THEN s ELSE SubSeq(s, 1, n)

RECURSIVE SnapshotSideKeepsZero(_)
\* SnapshotSide with the filter written ">= 0"
SnapshotSideKeepsZero(levels) ==
    IF levels = <<>> THEN EmptyMap
    ELSE LET n == Len(levels)
             rest == SnapshotSideKeepsZero(SubSeq(levels, 1, n - 1))
             price == ParseFloat(levels[n][1])
             qty == ParseFloat(levels[n][2])
         IN IF qty >= 0 THEN MapSet(rest, price, qty) ELSE rest

RECURSIVE SnapshotSide(_)
\* {float(p): float(q) for p, q in levels if float(q) > 0}
SnapshotSide(levels) ==
    IF levels = <<>> THEN EmptyMap
    ELSE LET n == Len(levels)
             rest == SnapshotSide(SubSeq(levels, 1, n - 1))
             price == ParseFloat(levels[n][1])
             qty == ParseFloat(levels[n][2])
         IN IF qty > 0 THEN MapSet(rest, price, qty) ELSE rest

\* ApplyLevel without the removal branch: a zero quantity is stored.
ApplyLevelStoresZero(m, level) == MapSet(m, ParseFloat(level[1]), ParseFloat(level[2]))

\* One iteration of the loops of _apply_depth_diff: pop on zero, else store.
ApplyLevel(m, level) ==
    LET price == ParseFloat(level[1])
        qty == ParseFloat(level[2])
    IN IF qty = 0 THEN MapPop(m, price) ELSE MapSet(m, price, qty)

RECURSIVE ApplyLevels(_, _)
\* for price_str, qty_str in levels: ...
ApplyLevels(m, levels) ==
    IF levels = <<>> THEN m
    ELSE ApplyLevels(ApplyLevel(m, Head(levels)), Tail(levels))

\* ------------------------------------------------------------------------
\* Payloads drawn by the environment
\* ------------------------------------------------------------------------

Ids == (0 .. MaxId) \cup {GapTolerance + 2, GapTolerance + 3}

\* (U, u) of a depth diff; 0 stands for a missing or zero id.
FrameIds ==
    {<<U, u>> \in Ids \X Ids : U >= 1 /\ u \in {U, U + 1}} \cup {<<0, 1>>, <<1, 0>>}

\* The "b" and "a" lists of a depth diff: [price, quantity] string pairs.
BidChanges ==
    {<<>>,
     <<(<<"100", "0">>)>>,
     <<(<<"100", "5">>)>>,
     <<(<<"100", "-1">>)>>,
     <<(<<"99", "5">>)>>,
     <<(<<"99", "0">>)>>,
     <<(<<"100.0", "3">>)>>,
     <<(<<"100", "5">>), (<<"100", "0">>)>>,
     <<(<<"99", "3">>), (<<"100", "0.0">>)>>}

AskChanges == {<<(<<"101", q>>)>> : q \in {"-1", "0", "3"}}

FrameSides ==
    {<<b, <<>>>> : b \in BidChanges}
        \cup {<<(<<>>), a>> : a \in AskChanges}
        \cup {<<(<<(<<"100", "0">>)>>), (<<(<<"101", "3">>)>>)>>}

\* Depth diff payloads {"U":..,"u":..,"b":[..],"a":[..]}
Frames ==
    {[U |-> i[1], u |-> i[2], b |-> s[1], a |-> s[2]] : i \in FrameIds, s \in FrameSides}

SnapBids ==
    {<<>>,
     <<(<<"100", "5">>)>>,
     <<(<<"100", "0">>)>>,
     <<(<<"99", "-1">>)>>,
     <<(<<"100", "5">>), (<<"99", "3">>)>>,
     <<(<<"99", "5">>), (<<"100.0", "0">>)>>,
     <<(<<"100", "3">>), (<<"100.0", "5">>)>>}

SnapAsks == {<<>>, <<(<<"101", "3">>)>>, <<(<<"101", "0">>)>>}

\* REST /depth outcomes: shape "ok" is a well-formed body; "none" is what
\* _fetch_depth_snapshot returns on any exception or for an empty body;
\* "no_bids" / "no_asks" are non-empty bodies lacking that key.
OkSnapshots ==
    {[shape |-> "ok", id |-> i, bids |-> b, asks |-> a] :
        i \in Ids, b \in SnapBids, a \in SnapAsks}

NoSnapshot == [shape |-> "none", id |-> 0, bids |-> <<>>, asks |-> <<>>]

BadSnapshots ==
    {[shape |-> sh, id |-> 2, bids |-> <<(<<"99", "5">>)>>, asks |-> <<>>] :
        sh \in {"no_bids", "no_asks"}}

SnapshotResults == OkSnapshots \cup {NoSnapshot} \cup BadSnapshots

\* models.Candle, by its open_time and its close price
Candle(t, c) == [t |-> t, c |-> c]

\* REST /klines outcomes: the parsed candle list; empty on failure.
HistoryResults == {<<>>, <<Candle(1, 0), Candle(2, 0)>>}

\* A 200 response whose JSON body is not iterable (null, a number): the
\* "for entry in raw" of _fetch_history raises TypeError outside its try.
\* It stands among the candle lists as the list of one candle of open_time
\* -1, which no response parses to.
HistoryRaises == <<Candle(-1, 0)>>

HistoryOutcomes == HistoryResults \cup {HistoryRaises}

\* ------------------------------------------------------------------------
\* State
\* ------------------------------------------------------------------------

VARIABLES
    pstate,       \* provider thread and loop: "new" | "running"
    queue,        \* _symbol_tf_queue: sequence of <<symbol.lower(), timeframe>>
    rpc,          \* _symbol_router: "off" | "get" | "cancel" | "history" | "depth" | "dead"
    current,      \* <<current_symbol, current_timeframe>> or None
    activeSymbol, \* _active_symbol
    handles,      \* trade_task, candle_task, depth_task: kind -> task or None
    tasks,        \* supervisor tasks alive on the loop
    resyncs,      \* in-flight _resync_depth tasks: symbol -> count
    cursor,       \* _last_depth_update_id
    bids,         \* _depth_bids
    asks,         \* _depth_asks
    out,          \* callbacks invoked by the last step, in order
    lastOp,       \* what the last step did
    lastIn,       \* <<U, u>> of the depth diff the last step received, or None
    cyc,          \* bookkeeping of the router's current cycle
    booted,       \* key whose bootstrap completed last, or None
    eSymbol,      \* CoreDataEngine._symbol_state._symbol
    eTimeframe,   \* CoreDataEngine._timeframe_state._timeframe
    eStarted,     \* CoreDataEngine._started
    eProvider,    \* CoreDataEngine._provider is not None
    epc,          \* a start() call in progress: "idle" | "starting"
    now,          \* time.perf_counter(), in ticks of 50 ms
    throttleAt,   \* throttle_at of the depth supervisor
    lastTickerEmit, \* _last_ticker_emit
    conn,         \* per supervisor: "idle" | "up" (connecting or connected) | "sleep"
    stopEvent,    \* _stop_event.is_set()
    cacheTrades,  \* CacheManager._trades: SYMBOL -> sequence of trades
    cacheCandles, \* CacheManager._candles: <<SYMBOL, timeframe>> -> sequence of candles
    tickerEmits,  \* times at which on_tickers was called, in order
    wired,        \* the provider's callbacks are the CoreDataEngine's on_* methods
    maxCandles,   \* CacheManager._max_candles
    maxTrades,    \* CacheManager._max_trades
    cacheDepth,   \* CacheManager._depth: SYMBOL -> the stored snapshot
    returned      \* the list a caller holds from get_history or get_trades

pvars == <<pstate, queue, rpc, current, activeSymbol, handles, tasks, resyncs,
           cursor, bids, asks, out, lastOp, lastIn, cyc, booted>>

\* pvars without the records of the last step
pvarsButLast == <<pstate, queue, rpc, current, activeSymbol, handles, tasks, resyncs,
                  cursor, bids, asks, cyc, booted>>

evars == <<eSymbol, eTimeframe, eStarted, eProvider, epc>>

\* clocks, connections, stop flag, cache
svars == <<now, throttleAt, lastTickerEmit, conn, stopEvent, cacheTrades, cacheCandles,
           tickerEmits, wired>>

\* the cache's capacities and its depth slots
cvars == <<maxCandles, maxTrades, cacheDepth, returned>>

vars == <<pvars, evars, svars, cvars>>

Kinds == <<"trade", "kline", "depth">>

NoHandles == [k \in {"trade", "kline", "depth"} |-> None]

\* n requests taken, the last of them, the key active before, and what the
\* pass has done so far
NoCycle == [n |-> 0, last |-> None, prev |-> None, cancels |-> 0, boots |-> 0, starts |-> 0]

Task(kind, key, st) == [kind |-> kind, symbol |-> key[1], timeframe |-> key[2], st |-> st]

\* ------------------------------------------------------------------------
\* Events
\* ------------------------------------------------------------------------

\* DepthSnapshotEvent(symbol.upper(), bids_list, asks_list, last_id)
DepthSnapshotEvent(symbol, bidMap, askMap, id) ==
    [type |-> "DepthSnapshot", symbol |-> Upper(symbol),
     bids |-> SortedBy(bidMap, TRUE), asks |-> SortedBy(askMap, FALSE), id |-> id]

\* DepthUpdateEvent(symbol.upper(), bids, asks, update_id) from the lists
\* _apply_depth_diff returned
DepthUpdateEvent(symbol, ret) ==
    [type |-> "DepthUpdate", symbol |-> Upper(symbol),
     bids |-> ret[1], asks |-> ret[2], id |-> ret[3]]

StreamEvent(type, symbol, timeframe) ==
    [type |-> type, symbol |-> Upper(symbol), timeframe |-> timeframe]

\* ------------------------------------------------------------------------
\* Depth replica: _apply_depth_diff
\* ------------------------------------------------------------------------

\* _apply_depth_diff whose gap branch returns without creating the
\* _resync_depth task
ApplyDepthDiffNoResync(payload, c, b, a) ==
    IF payload.U = 0 \/ payload.u = 0 \/ (c # 0 /\ payload.u <= c)
          \/ (c # 0 /\ payload.U > c + GapTolerance)
    THEN [bids |-> b, asks |-> a, cursor |-> c, ret |-> None, resync |-> FALSE]
    ELSE LET nb == ApplyLevels(b, payload.b)
             na == ApplyLevels(a, payload.a)
         IN [bids |-> nb, asks |-> na, cursor |-> payload.u,
             ret |-> <<Take(SortedBy(nb, TRUE), TopN),
                       Take(SortedBy(na, FALSE), TopN), payload.u>>,
             resync |-> FALSE]

\* "if not first_id or not last_id": a missing or zero id
MissingIds(payload) == payload.U = 0 \/ payload.u = 0

\* IsStale with "<" for "<=": the frame that set the cursor is not stale.
IsStaleStrict(payload, c) == c # 0 /\ payload.u < c

\* "self._last_depth_update_id and last_id <= self._last_depth_update_id"
IsStale(payload, c) == c # 0 /\ payload.u <= c

\* "self._last_depth_update_id and first_id > self._last_depth_update_id + 1000"
IsGap(payload, c) == c # 0 /\ payload.U > c + GapTolerance

\* The maps and cursor after the call, the returned triple (None when the
\* frame is dropped) and whether a _resync_depth task was created.
ApplyDepthDiff(payload, c, b, a) ==
    IF MissingIds(payload) \/ IsStale(payload, c)
    THEN [bids |-> b, asks |-> a, cursor |-> c, ret |-> None, resync |-> FALSE]
    ELSE IF IsGap(payload, c)
    THEN [bids |-> b, asks |-> a, cursor |-> c, ret |-> None, resync |-> TRUE]
    ELSE LET nb == ApplyLevels(b, payload.b)
             na == ApplyLevels(a, payload.a)
         IN [bids |-> nb, asks |-> na, cursor |-> payload.u,
             ret |-> <<Take(SortedBy(nb, TRUE), TopN),
                       Take(SortedBy(na, FALSE), TopN), payload.u>>,
             resync |-> FALSE]

\* ------------------------------------------------------------------------
\* Provider lifecycle and request queue
\* ------------------------------------------------------------------------

\* No supervisor holds or attempts a connection.
AllIdle == [k \in {"ticker", "trade", "kline", "depth"} |-> "idle"]

\* Elapsed without the interval test
ElapsedAlways(t, since, interval) == TRUE

\* "now - since >= interval" of the two throttles
Elapsed(t, since, interval) == t - since >= interval

ProviderInit ==
    /\ pstate = "new"
    /\ queue = <<>>
    /\ rpc = "off"
    /\ current = None
    /\ activeSymbol = ""
    /\ handles = NoHandles
    /\ tasks = {}
    /\ resyncs = [s \in {"btcusdt", "ethusdt"} |-> 0]
    /\ cursor = 0
    /\ bids = EmptyMap
    /\ asks = EmptyMap
    /\ out = <<>>
    /\ lastOp = "init"
    /\ lastIn = None
    /\ cyc = NoCycle
    /\ booted = None
    /\ throttleAt = 0
    /\ lastTickerEmit = 0
    /\ conn = AllIdle
    /\ stopEvent = FALSE
    /\ tickerEmits = <<>>

\* CacheManager.__init__
CacheInit ==
    /\ cacheTrades = EmptyMap
    /\ cacheCandles = EmptyMap
    /\ cacheDepth = EmptyMap
    /\ returned = NoList
    /\ maxCandles = MaxCandles
    /\ maxTrades = MaxTrades

\* CoreDataEngine.__init__ with its default arguments
Init ==
    /\ ProviderInit
    /\ CacheInit
    /\ now = 0
    /\ wired = FALSE
    /\ eSymbol = "BTCUSDT"
    /\ eTimeframe = "1m"
    /\ eStarted = FALSE
    /\ eProvider = FALSE
    /\ epc = "idle"

\* BinanceProvider.start and the head of _main: the loop and the queue exist
\* and hold the initial request; the router task is created.
ProviderStart(symbol, timeframe) ==
    /\ pstate = "new"
    /\ pstate' = "running"
    /\ queue' = <<(<<Lower(symbol), timeframe>>)>>
    /\ rpc' = "get"
    /\ out' = <<>>
    /\ lastOp' = "start"
    /\ UNCHANGED evars
    /\ lastIn' = None
    /\ conn' = [conn EXCEPT !["ticker"] = "up"]
    /\ stopEvent' = FALSE
    /\ UNCHANGED <<now, throttleAt, lastTickerEmit, cacheTrades, cacheCandles, tickerEmits,
                   wired>>
    /\ UNCHANGED cvars
    /\ UNCHANGED <<current, activeSymbol, handles, tasks, resyncs, cursor, bids, asks,
                   cyc, booted>>

\* BinanceProvider.set_symbol_timeframe
SetSymbolTimeframe(symbol, timeframe) ==
    /\ Len(queue) < MaxQueue
    /\ IF pstate = "running"
       THEN queue' = Append(queue, <<Lower(symbol), timeframe>>)
       ELSE queue' = queue
    /\ out' = <<>>
    /\ lastOp' = IF pstate \in {"stopped", "crashed"}
                 THEN "set_symbol_timeframe_raised"
                 ELSE "set_symbol_timeframe"
    /\ UNCHANGED evars
    /\ lastIn' = None
    /\ UNCHANGED svars
    /\ UNCHANGED cvars
    /\ UNCHANGED <<pstate, rpc, current, activeSymbol, handles, tasks, resyncs, cursor,
                   bids, asks, cyc, booted>>


\* ------------------------------------------------------------------------
\* Symbol router: _symbol_router and _prefetch
\* ------------------------------------------------------------------------

\* Coalesce without the drain loop's overwrite: the first request is kept.
CoalesceKeepsFirst(q) == q[1]

\* The request the router keeps of a burst: the first get() and then every
\* further get() while the queue is not empty overwrite (symbol, timeframe).
Coalesce(q) == q[Len(q)]

\* The queue after the drain loop.
Drained(q) == <<>>

\* NextToCancel of a router that cancels nothing before it bootstraps
NextToCancelNone(h, i) == 0

\* The next task of (trade_task, candle_task, depth_task), from position i on,
\* that is not None: the one the for-loop cancels and awaits next; 0 if none.
NextToCancel(h, i) ==
    IF \E j \in i .. 3 : h[Kinds[j]] # None
    THEN CHOOSE j \in i .. 3 : h[Kinds[j]] # None /\ \A l \in i .. (j - 1) : h[Kinds[l]] = None
    ELSE 0

\* task.cancel() on the task handle h[kind]
CancelTask(ts, h, kind) ==
    {IF t.kind = kind /\ <<t.symbol, t.timeframe>> = h[kind] /\ t.st = "running"
        THEN [t EXCEPT !.st = "cancelling"] ELSE t : t \in ts}

\* The router's test with every request taken for a new key
SameKeyNever(req, cur) == FALSE

\* symbol == current_symbol and timeframe == current_timeframe
SameKey(req, cur) == req = cur

\* One pass of the router loop up to its first suspension: take the burst,
\* compare with the active key, and on a change cancel the first supervisor
\* (or, with none to cancel, enter _prefetch and its history request).
RouterCycle ==
    /\ rpc = "get"
    /\ queue # <<>>
    /\ LET req == Coalesce(queue)
           first == NextToCancel(handles, 1)
       IN /\ queue' = Drained(queue)
          /\ out' = <<>>
          /\ IF SameKey(req, current)
             THEN /\ lastOp' = "router_noop"
                  /\ cyc' = [NoCycle EXCEPT !.n = Len(queue), !.last = queue[Len(queue)],
                                             !.prev = current]
                  /\ UNCHANGED <<rpc, current, activeSymbol, tasks>>
             ELSE /\ lastOp' = "router_switch"
                  /\ current' = req
                  /\ activeSymbol' = req[1]
                  /\ IF first = 0
                     THEN /\ rpc' = "history"
                          /\ tasks' = tasks
                     ELSE /\ rpc' = "cancel"
                          /\ tasks' = CancelTask(tasks, handles, Kinds[first])
                  /\ cyc' = [n |-> Len(queue), last |-> queue[Len(queue)], prev |-> current,
                             cancels |-> IF first = 0 THEN 0 ELSE 1,
                             boots |-> IF first = 0 THEN 1 ELSE 0, starts |-> 0]
    /\ UNCHANGED evars
    /\ lastIn' = None
    /\ UNCHANGED svars
    /\ UNCHANGED cvars
    /\ UNCHANGED <<pstate, handles, resyncs, cursor, bids, asks, booted>>

\* "await task" returns: the cancelled supervisor has terminated; the loop
\* cancels the next one, or goes on to _prefetch.
RouterCancelled ==
    /\ rpc = "cancel"
    /\ \E t \in tasks :
        /\ t.st = "cancelling"
        /\ LET i == CHOOSE j \in 1 .. 3 : Kinds[j] = t.kind
               next == NextToCancel(handles, i + 1)
               left == tasks \ {t}
           IN IF next = 0
              THEN /\ rpc' = "history"
                   /\ tasks' = left
                   /\ cyc' = [cyc EXCEPT !.boots = @ + 1]
              ELSE /\ rpc' = "cancel"
                   /\ tasks' = CancelTask(left, handles, Kinds[next])
                   /\ cyc' = [cyc EXCEPT !.cancels = @ + 1]
    /\ out' = <<>>
    /\ lastOp' = "router_cancelled"
    /\ UNCHANGED evars
    /\ lastIn' = None
    /\ UNCHANGED svars
    /\ UNCHANGED cvars
    /\ UNCHANGED <<pstate, queue, current, activeSymbol, handles, resyncs, cursor, bids,
                   asks, booted>>

\* An exception leaves _symbol_router: the router task ends with it, gather
\* in _main re-raises it, the finally block cancels the ticker task, _main and
\* asyncio.run end, and asyncio.run cancels every task left on the loop and
\* closes the loop. _stop_event is not set, unless stop() was called while
\* the router went on (see ProviderStop).
RouterDies ==
    /\ rpc' = IF stopEvent THEN "off" ELSE "dead"
    /\ pstate' = IF stopEvent THEN "stopped" ELSE "crashed"
    /\ tasks' = {}
    /\ resyncs' = [s \in DOMAIN resyncs |-> 0]
    /\ conn' = AllIdle

\* deque(maxlen=n).append(x)
\* deque.append without maxlen
DequeAppendUnbounded(dq, x, n) == Append(dq, x)

DequeAppend(dq, x, n) ==
    IF n = 0 THEN <<>>
    ELSE IF Len(dq) < n THEN Append(dq, x) ELSE Append(Tail(dq), x)

\* CacheManager.set_history: the list replaces the deque of (SYMBOL, timeframe)
\* set_history that extends the buffer of the key
SetHistoryExtends(c, symbol, timeframe, candles) ==
    LET key == <<Upper(symbol), timeframe>>
        all == (IF key \in DOMAIN c THEN c[key] ELSE <<>>) \o candles
    IN MapSet(c, key,
              IF Len(all) <= maxCandles THEN all
              ELSE SubSeq(all, Len(all) - maxCandles + 1, Len(all)))

SetHistory(c, symbol, timeframe, candles) ==
    MapSet(c, <<Upper(symbol), timeframe>>,
           IF Len(candles) <= maxCandles THEN candles
           ELSE SubSeq(candles, Len(candles) - maxCandles + 1, Len(candles)))

\* _on_history(symbol.upper(), timeframe, history), called for a non-empty
\* list only: the CandleHistory event
OnHistory(symbol, timeframe, history) ==
    IF history # <<>>
    THEN <<[type |-> "CandleHistory", symbol |-> Upper(symbol),
            timeframe |-> timeframe, candles |-> history]>>
    ELSE <<>>

\* CacheManager.set_depth as CoreDataEngine.on_depth_snapshot and
\* on_depth_update call it with a depth event
SetDepth(c, evt) ==
    MapSet(c, Upper(evt.symbol), [bids |-> evt.bids, asks |-> evt.asks, id |-> evt.id])

\* The depth slots after a provider step: the engine's callback stores the
\* depth event the step published, if it published one.
DepthSlots == IF wired /\ out' # <<>> THEN SetDepth(cacheDepth, out'[1]) ELSE cacheDepth

\* _prefetch, first half: the /klines response arrives; on_history is called
\* for a non-empty list; the /depth request is sent.
PrefetchHistory(history) ==
    /\ rpc = "history"
    /\ IF history = HistoryRaises
       THEN /\ RouterDies
            /\ out' = <<>>
            /\ lastOp' = "bootstrap_error"
            /\ UNCHANGED <<cacheCandles>>
       ELSE /\ rpc' = "depth"
            /\ out' = OnHistory(current[1], current[2], history)
            /\ cacheCandles' = IF wired /\ history # <<>>
                               THEN SetHistory(cacheCandles, current[1], current[2], history)
                               ELSE cacheCandles
            /\ lastOp' = "prefetch_history"
            /\ UNCHANGED <<pstate, tasks, resyncs, conn>>
    /\ UNCHANGED evars
    /\ lastIn' = None
    /\ UNCHANGED <<now, throttleAt, lastTickerEmit, stopEvent, cacheTrades, tickerEmits,
                   wired>>
    /\ UNCHANGED cvars
    /\ UNCHANGED <<queue, current, activeSymbol, handles, cursor, bids, asks, cyc, booted>>

\* The three create_task calls that end a router pass.
StartSupervisors(ts, key) ==
    ts \cup {Task(Kinds[i], key, "running") : i \in 1 .. 3}

\* _prefetch, second half, and the rest of the router pass: the /depth
\* response arrives, a snapshot replaces the replica and is published, and
\* the three supervisors are started. A body lacking "bids" or "asks" raises
\* KeyError out of _prefetch and ends the router task.
PrefetchDepth(snap) ==
    /\ rpc = "depth"
    /\ cursor' = IF snap.shape = "none" THEN cursor ELSE snap.id
    /\ bids' = IF snap.shape \in {"ok", "no_asks"} THEN SnapshotSide(snap.bids) ELSE bids
    /\ asks' = IF snap.shape = "ok" THEN SnapshotSide(snap.asks) ELSE asks
    /\ out' = IF snap.shape = "ok"
              THEN <<DepthSnapshotEvent(current[1], bids', asks', snap.id)>>
              ELSE <<>>
    /\ IF snap.shape \in {"ok", "none"}
       THEN /\ handles' = [k \in DOMAIN handles |-> current]
            /\ cyc' = [cyc EXCEPT !.starts = @ + 1]
            /\ booted' = current
            /\ lastOp' = IF snap.shape = "ok" THEN "bootstrap_snapshot" ELSE "bootstrap_failed"
            /\ throttleAt' = now
            /\ IF stopEvent
               THEN \* the three tasks and the router leave their loops at
                    \* the "while not self._stop_event.is_set()" test
                    /\ rpc' = "off"
                    /\ pstate' = "stopped"
                    /\ UNCHANGED <<tasks, conn>>
               ELSE /\ rpc' = "get"
                    /\ tasks' = StartSupervisors(tasks, current)
                    /\ conn' = [k \in DOMAIN conn |-> IF k = "ticker" THEN conn[k] ELSE "up"]
                    /\ UNCHANGED pstate
            /\ UNCHANGED resyncs
       ELSE /\ RouterDies
            /\ lastOp' = "bootstrap_error"
            /\ UNCHANGED <<handles, cyc, booted, throttleAt>>
    /\ UNCHANGED evars
    /\ lastIn' = None
    /\ UNCHANGED <<now, lastTickerEmit, stopEvent, cacheTrades, cacheCandles, tickerEmits,
                   wired>>
    /\ cacheDepth' = DepthSlots
    /\ UNCHANGED <<maxCandles, maxTrades, returned>>
    /\ UNCHANGED <<queue, current, activeSymbol>>

\* ------------------------------------------------------------------------
\* Stream supervisors
\* ------------------------------------------------------------------------

\* _trade_loop: one parsed trade frame
TradeFrame ==
    /\ \E t \in tasks :
        /\ t.kind = "trade" /\ t.st = "running" /\ conn["trade"] = "up"
        /\ out' = <<StreamEvent("Trade", t.symbol, "")>>
    /\ lastOp' = "trade"
    /\ UNCHANGED evars
    /\ lastIn' = None
    /\ UNCHANGED svars
    /\ UNCHANGED cvars
    /\ UNCHANGED <<pstate, queue, rpc, current, activeSymbol, handles, tasks, resyncs,
                   cursor, bids, asks, cyc, booted>>

\* _kline_loop: one parsed kline frame
KlineFrame ==
    /\ \E t \in tasks :
        /\ t.kind = "kline" /\ t.st = "running" /\ conn["kline"] = "up"
        /\ out' = <<StreamEvent("CandleUpdate", t.symbol, t.timeframe)>>
    /\ lastOp' = "kline"
    /\ UNCHANGED evars
    /\ lastIn' = None
    /\ UNCHANGED svars
    /\ UNCHANGED cvars
    /\ UNCHANGED <<pstate, queue, rpc, current, activeSymbol, handles, tasks, resyncs,
                   cursor, bids, asks, cyc, booted>>

\* The read loops with the test of the stop signal left out
StopSeenNever == FALSE

\* "if self._stop_event.is_set(): break", the first statement of every
\* "async for msg in ws" body
StopSeen == stopEvent

\* Number of _resync_depth tasks alive
InFlight(rs) == rs["btcusdt"] + rs["ethusdt"]

\* _depth_loop: one frame through _apply_depth_diff; elapsed says whether
\* 0.1 s have passed since the last emitted update.
DepthFrame(payload, elapsed) ==
    /\ ~StopSeen
    /\ \E t \in tasks :
        /\ t.kind = "depth" /\ t.st = "running" /\ conn["depth"] = "up"
        /\ LET r == ApplyDepthDiff(payload, cursor, bids, asks)
           IN /\ r.resync => InFlight(resyncs) < MaxResync
              /\ throttleAt' = IF r.ret # None /\ elapsed THEN now ELSE throttleAt
              /\ bids' = r.bids
              /\ asks' = r.asks
              /\ cursor' = r.cursor
              /\ resyncs' = IF r.resync
                            THEN [resyncs EXCEPT ![t.symbol] = @ + 1]
                            ELSE resyncs
              /\ out' = IF r.ret # None /\ elapsed
                        THEN <<DepthUpdateEvent(t.symbol, r.ret)>>
                        ELSE <<>>
              /\ lastOp' = IF r.resync THEN "diff_gap"
                           ELSE IF r.ret = None THEN "diff_dropped"
                           ELSE "diff_applied"
    /\ UNCHANGED evars
    /\ lastIn' = <<payload.U, payload.u>>
    /\ UNCHANGED <<now, lastTickerEmit, conn, stopEvent, cacheTrades, cacheCandles,
                   tickerEmits, wired>>
    /\ cacheDepth' = DepthSlots
    /\ UNCHANGED <<maxCandles, maxTrades, returned>>
    /\ UNCHANGED <<pstate, queue, rpc, current, activeSymbol, handles, tasks, cyc, booted>>

\* ResyncCursor with the assignment placed before the "if not snapshot" test
ResyncCursorEarly(snap, c) == snap.id

\* The cursor after _resync_depth: last_id is stored only past the
\* "if not snapshot: return" and the two map assignments.
ResyncCursor(snap, c) == IF snap.shape = "ok" THEN snap.id ELSE c

\* _resync_depth: the /depth response of one in-flight resync arrives.
ResyncLand(symbol, snap) ==
    /\ resyncs[symbol] > 0
    /\ resyncs' = [resyncs EXCEPT ![symbol] = @ - 1]
    /\ bids' = IF snap.shape \in {"ok", "no_asks"} THEN SnapshotSide(snap.bids) ELSE bids
    /\ asks' = IF snap.shape = "ok" THEN SnapshotSide(snap.asks) ELSE asks
    /\ cursor' = ResyncCursor(snap, cursor)
    /\ out' = IF snap.shape = "ok"
              THEN <<DepthSnapshotEvent(symbol, bids', asks', snap.id)>>
              ELSE <<>>
    /\ lastOp' = CASE snap.shape = "ok" -> "resync_snapshot"
                   [] snap.shape = "none" -> "resync_failed"
                   [] OTHER -> "resync_error"
    /\ UNCHANGED evars
    /\ lastIn' = None
    /\ UNCHANGED svars
    /\ cacheDepth' = DepthSlots
    /\ UNCHANGED <<maxCandles, maxTrades, returned>>
    /\ UNCHANGED <<pstate, queue, rpc, current, activeSymbol, handles, tasks, cyc, booted>>

\* ------------------------------------------------------------------------
\* Stream supervisors: connections, frames as received, throttles
\* ------------------------------------------------------------------------

\* A supervisor is "up" from the moment it enters "async with
\* websockets.connect(...)" (connecting, then reading frames) and "sleep"
\* while it waits in asyncio.sleep(1) of an except branch. The on_status
\* calls of the ticker supervisor are not part of the model.

\* The supervisor coroutine of this kind is alive and not being cancelled.
Supervising(kind) ==
    IF kind = "ticker"
    THEN pstate = "running"
    ELSE \E t \in tasks : t.kind = kind /\ t.st = "running"

\* The key of the running supervisor of this kind
KeyOf(kind) ==
    LET t == CHOOSE x \in tasks : x.kind = kind /\ x.st = "running"
    IN <<t.symbol, t.timeframe>>

\* time.perf_counter() advances by one tick, up to limit.
Tick(limit) ==
    /\ now < limit
    /\ now' = now + 1
    /\ out' = <<>>
    /\ lastOp' = "tick"
    /\ lastIn' = None
    /\ UNCHANGED <<pvarsButLast, evars>>
    /\ UNCHANGED <<throttleAt, lastTickerEmit, conn, stopEvent, cacheTrades, cacheCandles,
                   tickerEmits, wired>>
    /\ UNCHANGED cvars

\* The connection attempt or the open connection of a supervisor fails with
\* ConnectionClosed, OSError or asyncio.TimeoutError (or any other
\* Exception): the except branch is entered and sleeps.
ConnError(kind) ==
    /\ Supervising(kind)
    /\ conn[kind] = "up"
    /\ conn' = [conn EXCEPT ![kind] = "sleep"]
    /\ out' = <<>>
    /\ lastOp' = "conn_error"
    /\ lastIn' = None
    /\ UNCHANGED <<pvarsButLast, evars>>
    /\ UNCHANGED <<now, throttleAt, lastTickerEmit, stopEvent, cacheTrades, cacheCandles,
                   tickerEmits, wired>>
    /\ UNCHANGED cvars

\* asyncio.sleep(1) returns, "while not self._stop_event.is_set()" is
\* passed and websockets.connect is entered again.
\* Reconnect that leaves the supervisor's loop after the sleep
ReconnectGivesUp(kind) ==
    /\ Supervising(kind)
    /\ conn[kind] = "sleep"
    /\ conn' = [conn EXCEPT ![kind] = "idle"]
    /\ out' = <<>>
    /\ lastOp' = "reconnect"
    /\ lastIn' = None
    /\ UNCHANGED <<pvarsButLast, evars>>
    /\ UNCHANGED <<now, throttleAt, lastTickerEmit, stopEvent, cacheTrades, cacheCandles,
                   tickerEmits, wired>>
    /\ UNCHANGED cvars

Reconnect(kind) ==
    /\ Supervising(kind)
    /\ conn[kind] = "sleep"
    /\ ~stopEvent
    /\ conn' = [conn EXCEPT ![kind] = "up"]
    /\ out' = <<>>
    /\ lastOp' = "reconnect"
    /\ lastIn' = None
    /\ UNCHANGED <<pvarsButLast, evars>>
    /\ UNCHANGED <<now, throttleAt, lastTickerEmit, stopEvent, cacheTrades, cacheCandles,
                   tickerEmits, wired>>
    /\ UNCHANGED cvars

\* The peer closes the stream with a normal close code: "async for msg in
\* ws" ends without an exception, the "async with" block is left, no except
\* branch runs, and the "while not self._stop_event.is_set()" test leads
\* straight into websockets.connect again.
StreamEnds(kind) ==
    /\ Supervising(kind)
    /\ conn[kind] = "up"
    /\ ~stopEvent
    /\ conn' = [conn EXCEPT ![kind] = "up"]
    /\ out' = <<>>
    /\ lastOp' = "stream_ended"
    /\ lastIn' = None
    /\ UNCHANGED <<pvarsButLast, evars>>
    /\ UNCHANGED <<now, throttleAt, lastTickerEmit, stopEvent, cacheTrades, cacheCandles,
                   tickerEmits, wired>>
    /\ UNCHANGED cvars

\* Text frames of the trade stream. "ok" is a trade object (v names it);
\* "nofields" is a JSON object without the trade fields, "nonnumeric" has a
\* price that float() rejects, "schema" is JSON that is not an object,
\* "badjson" is not JSON.
TradeMsgs ==
    {[k |-> "ok", v |-> i] : i \in 1 .. 2}
        \cup {[k |-> e, v |-> 0] : e \in {"nofields", "nonnumeric", "schema", "badjson"}}

\* json.loads and _parse_trade: the Trade built (every field has a default,
\* so an object without the fields gives the all-zero trade), None for a
\* TypeError/ValueError inside _parse_trade, or an exception that leaves the
\* "async for" (JSONDecodeError of json.loads, AttributeError of .get).
ParseTrade(msg) ==
    CASE msg.k = "ok" -> [res |-> "value", v |-> msg.v]
      [] msg.k = "nofields" -> [res |-> "value", v |-> 0]
      [] msg.k = "nonnumeric" -> [res |-> "none", v |-> 0]
      [] OTHER -> [res |-> "raise", v |-> 0]

\* Text frames of the kline stream: t is the open time, x the closed flag;
\* "no_k" is a JSON object without "k".
KlineMsgs ==
    {[k |-> "ok", t |-> i, x |-> c] : i \in 1 .. 2, c \in BOOLEAN}
        \cup {[k |-> e, t |-> 0, x |-> FALSE] : e \in {"no_k", "nonnumeric", "schema", "badjson"}}

\* json.loads and _parse_kline
ParseKline(msg) ==
    CASE msg.k = "ok" -> [res |-> "value", t |-> msg.t, x |-> msg.x]
      [] msg.k \in {"no_k", "nonnumeric"} -> [res |-> "none", t |-> 0, x |-> FALSE]
      [] OTHER -> [res |-> "raise", t |-> 0, x |-> FALSE]

\* Text frames of the !ticker@arr stream: "ok" is an array with watchlist
\* symbols (v names its content), "empty" an array without any, "nonnumeric"
\* an array whose only watchlist item has a field float() rejects, "schema"
\* a JSON object, "badjson" not JSON.
TickerMsgs ==
    {[k |-> "ok", v |-> i] : i \in 1 .. 2}
        \cup {[k |-> e, v |-> 0] : e \in {"empty", "nonnumeric", "schema", "badjson"}}

\* json.loads and _parse_ticker_arr: the list of TickerData (0 for the
\* empty list) or an exception
ParseTickerArr(msg) ==
    CASE msg.k = "ok" -> [res |-> "value", v |-> msg.v]
      [] msg.k \in {"empty", "nonnumeric"} -> [res |-> "value", v |-> 0]
      [] OTHER -> [res |-> "raise", v |-> 0]

\* CacheManager.append_trade
AppendTrade(c, symbol, trade) ==
    LET key == Upper(symbol)
        dq == IF key \in DOMAIN c THEN c[key] ELSE <<>>
    IN MapSet(c, key, DequeAppend(dq, trade, maxTrades))

\* append_candle that appends every closed candle
AppendCandleAlways(c, symbol, timeframe, candle, closed) ==
    LET key == <<Upper(symbol), timeframe>>
        dq == IF key \in DOMAIN c THEN c[key] ELSE <<>>
        n == Len(dq)
    IN MapSet(c, key,
              IF dq = <<>> \/ closed THEN DequeAppend(dq, candle, maxCandles)
              ELSE [dq EXCEPT ![n] = candle])

\* CacheManager.get_history
GetHistory(c, symbol, timeframe) ==
    IF <<Upper(symbol), timeframe>> \in DOMAIN c THEN c[<<Upper(symbol), timeframe>>] ELSE <<>>

\* CacheManager.get_trades
GetTrades(c, symbol) == IF Upper(symbol) \in DOMAIN c THEN c[Upper(symbol)] ELSE <<>>

\* CacheManager.append_candle: a closed candle is appended when its
\* open_time is beyond the last entry's and replaces the last entry
\* otherwise; an open candle replaces the last entry (or starts the deque).
AppendCandle(c, symbol, timeframe, candle, closed) ==
    LET key == <<Upper(symbol), timeframe>>
        dq == IF key \in DOMAIN c THEN c[key] ELSE <<>>
        n == Len(dq)
    IN MapSet(c, key,
              IF dq = <<>> THEN DequeAppend(dq, candle, maxCandles)
              ELSE IF closed /\ candle.t > dq[n].t THEN DequeAppend(dq, candle, maxCandles)
              ELSE [dq EXCEPT ![n] = candle])

\* OnTrade with the signal emitted before the cache is written
OnTradeEmitFirst(symbol, trade) ==
    <<[type |-> "TradeEvent", trade |-> trade],
      [type |-> "append_trade", symbol |-> Upper(symbol), trade |-> trade]>>

\* CoreDataEngine.on_trade: what it does, in order
OnTrade(symbol, trade) ==
    <<[type |-> "append_trade", symbol |-> Upper(symbol), trade |-> trade],
      [type |-> "TradeEvent", trade |-> trade]>>

\* CoreDataEngine.on_candle_update: what it does, in order
OnCandleUpdate(symbol, timeframe, candle, closed) ==
    <<[type |-> "append_candle", symbol |-> Upper(symbol), timeframe |-> timeframe,
       candle |-> candle, closed |-> closed],
      [type |-> "CandleUpdate", symbol |-> Upper(symbol), timeframe |-> timeframe,
       candle |-> candle, closed |-> closed]>>

\* An exception leaves the "async for" of a supervisor: "except Exception"
\* logs it and sleeps; the connection is closed by the "async with".
FrameRaises(kind) ==
    /\ conn' = [conn EXCEPT ![kind] = "sleep"]
    /\ out' = <<>>
    /\ lastOp' = "frame_error"

\* _trade_loop: one text frame
TradeMessage(msg) ==
    /\ ~StopSeen
    /\ Supervising("trade")
    /\ conn["trade"] = "up"
    /\ LET r == ParseTrade(msg)
           symbol == KeyOf("trade")[1]
       IN /\ (wired /\ r.res = "value") =>
                (Upper(symbol) \in DOMAIN cacheTrades => Len(cacheTrades[Upper(symbol)]) < MaxLog)
          /\ CASE r.res = "raise" ->
                    FrameRaises("trade") /\ UNCHANGED cacheTrades
               [] r.res = "none" ->
                    /\ out' = <<>>
                    /\ lastOp' = "frame_dropped"
                    /\ UNCHANGED <<conn, cacheTrades>>
               [] OTHER ->
                    /\ out' = IF wired THEN OnTrade(Upper(symbol), r.v)
                              ELSE <<[type |-> "TradeEvent", trade |-> r.v]>>
                    /\ cacheTrades' = IF wired
                                      THEN AppendTrade(cacheTrades, Upper(symbol), r.v)
                                      ELSE cacheTrades
                    /\ lastOp' = "trade"
                    /\ UNCHANGED conn
    /\ lastIn' = None
    /\ UNCHANGED <<pvarsButLast, evars>>
    /\ UNCHANGED <<now, throttleAt, lastTickerEmit, stopEvent, cacheCandles, tickerEmits, wired>>
    /\ UNCHANGED cvars

\* _kline_loop: one text frame
KlineMessage(msg) ==
    /\ ~StopSeen
    /\ Supervising("kline")
    /\ conn["kline"] = "up"
    /\ LET r == ParseKline(msg)
           key == KeyOf("kline")
           after == AppendCandle(cacheCandles, key[1], key[2], Candle(r.t, 0), r.x)
       IN /\ (wired /\ r.res = "value") => Len(after[<<Upper(key[1]), key[2]>>]) <= MaxLog
          /\ CASE r.res = "raise" ->
                    FrameRaises("kline") /\ UNCHANGED cacheCandles
               [] r.res = "none" ->
                    /\ out' = <<>>
                    /\ lastOp' = "frame_dropped"
                    /\ UNCHANGED <<conn, cacheCandles>>
               [] OTHER ->
                    /\ out' = IF wired THEN OnCandleUpdate(Upper(key[1]), key[2], Candle(r.t, 0), r.x)
                              ELSE <<[type |-> "CandleUpdate", symbol |-> Upper(key[1]),
                                      timeframe |-> key[2], candle |-> Candle(r.t, 0),
                                      closed |-> r.x]>>
                    /\ cacheCandles' = IF wired THEN after ELSE cacheCandles
                    /\ lastOp' = "kline"
                    /\ UNCHANGED conn
    /\ lastIn' = None
    /\ UNCHANGED <<pvarsButLast, evars>>
    /\ UNCHANGED <<now, throttleAt, lastTickerEmit, stopEvent, cacheTrades, tickerEmits, wired>>
    /\ UNCHANGED cvars

\* _ticker_loop: one text frame
TickerMessage(msg) ==
    /\ ~StopSeen
    /\ pstate = "running"
    /\ conn["ticker"] = "up"
    /\ LET r == ParseTickerArr(msg)
           emit == r.res = "value" /\ r.v # 0 /\ Elapsed(now, lastTickerEmit, TickerInterval)
       IN IF r.res = "raise"
          THEN FrameRaises("ticker") /\ UNCHANGED <<lastTickerEmit, tickerEmits>>
          ELSE /\ out' = IF emit THEN <<[type |-> "TickersEvent", tickers |-> r.v]>> ELSE <<>>
               /\ lastTickerEmit' = IF emit THEN now ELSE lastTickerEmit
               /\ tickerEmits' = IF emit THEN Append(tickerEmits, now) ELSE tickerEmits
               /\ lastOp' = IF emit THEN "tickers" ELSE "ticker_quiet"
               /\ UNCHANGED conn
    /\ lastIn' = IF msg.k = "ok" THEN <<msg.v>> ELSE None
    /\ UNCHANGED <<pvarsButLast, evars>>
    /\ UNCHANGED <<now, throttleAt, stopEvent, cacheTrades, cacheCandles, wired>>
    /\ UNCHANGED cvars

\* _depth_loop's throttle test with the interval ignored
DepthElapsedAlways == TRUE

\* _depth_loop: now - throttle_at >= 0.1
DepthElapsed == Elapsed(now, throttleAt, DepthInterval)

\* Text frames of the depth stream: "ok" carries a diff payload p;
\* "nonnumeric" carries the payload p followed, among its asks, by a level
\* whose price float() rejects; "schema" is a JSON array, "badjson" is not
\* JSON.
DepthMsgs(frames) ==
    {[k |-> "ok", p |-> f] : f \in frames}
        \cup {[k |-> e, p |-> [U |-> 2, u |-> 2, b |-> <<(<<"99", "3">>)>>, a |-> <<>>]] :
                 e \in {"nonnumeric", "schema", "badjson"}}

\* _depth_loop: one text frame. float() raises ValueError inside
\* _apply_depth_diff after the id tests and after the levels before the bad
\* one were written; the cursor is assigned after the loops.
DepthMessage(msg, elapsed) ==
    LET r == ApplyDepthDiff(msg.p, cursor, bids, asks)
    IN IF msg.k = "ok" \/ (msg.k = "nonnumeric" /\ r.ret = None)
       THEN DepthFrame(msg.p, elapsed)
       ELSE /\ ~StopSeen
            /\ Supervising("depth")
            /\ conn["depth"] = "up"
            /\ FrameRaises("depth")
            /\ bids' = IF msg.k = "nonnumeric" THEN r.bids ELSE bids
            /\ lastIn' = IF msg.k = "nonnumeric" THEN <<msg.p.U, msg.p.u>> ELSE None
            /\ UNCHANGED <<pstate, queue, rpc, current, activeSymbol, handles, tasks,
                           resyncs, cursor, asks, cyc, booted>>
            /\ UNCHANGED evars
            /\ UNCHANGED <<now, throttleAt, lastTickerEmit, stopEvent, cacheTrades,
                           cacheCandles, tickerEmits, wired>>
            /\ UNCHANGED cvars

\* BinanceProvider.stop on the provider's variables. On a running provider
\* loop.stop() makes asyncio.run cancel every task and close the loop, and
\* join returns. A router that is inside "with suppress(CancelledError):
\* await task" when it is cancelled has the CancelledError suppressed with
\* that of the task it awaits: it goes on to _prefetch while stop() waits
\* in join ("joining"). On a provider whose loop is closed
\* call_soon_threadsafe raises RuntimeError. A second loop.stop() while the
\* thread is still alive ends the run of the remaining tasks.
StopEffect ==
    /\ stopEvent' = TRUE
    /\ CASE pstate = "new" ->
              UNCHANGED <<pstate, rpc, tasks, resyncs, conn, cyc>>
         [] pstate = "running" /\ rpc = "cancel" ->
              /\ pstate' = "joining"
              /\ rpc' = "history"
              /\ tasks' = {}
              /\ resyncs' = [s \in DOMAIN resyncs |-> 0]
              /\ conn' = AllIdle
              /\ cyc' = [cyc EXCEPT !.boots = @ + 1]
         [] pstate \in {"running", "joining", "stopping"} ->
              /\ pstate' = "stopped"
              /\ rpc' = "off"
              /\ tasks' = {}
              /\ resyncs' = [s \in DOMAIN resyncs |-> 0]
              /\ conn' = AllIdle
              /\ UNCHANGED cyc
         [] OTHER ->
              UNCHANGED <<pstate, rpc, tasks, resyncs, conn, cyc>>

\* BinanceProvider.stop
ProviderStop ==
    /\ StopEffect
    /\ out' = <<>>
    /\ lastOp' = IF pstate \in {"stopped", "crashed"} THEN "stop_raised" ELSE "stop"
    /\ lastIn' = None
    /\ UNCHANGED <<queue, current, activeSymbol, handles, cursor, bids, asks, booted>>
    /\ UNCHANGED evars
    /\ UNCHANGED <<now, throttleAt, lastTickerEmit, cacheTrades, cacheCandles, tickerEmits,
                   wired>>
    /\ UNCHANGED cvars

\* BinanceProvider.stop, first statement: self._stop_event.set(), taken
\* while the router waits at its queue and the supervisors run; the
\* loop.stop() that stop() schedules next is StopLands.
StopSignal ==
    /\ pstate = "running"
    /\ rpc = "get"
    /\ queue = <<>>
    /\ ~stopEvent
    /\ stopEvent' = TRUE
    /\ out' = <<>>
    /\ lastOp' = "stop_signal"
    /\ lastIn' = None
    /\ UNCHANGED <<pvarsButLast, evars>>
    /\ UNCHANGED <<now, throttleAt, lastTickerEmit, conn, cacheTrades, cacheCandles,
                   tickerEmits, wired>>
    /\ UNCHANGED cvars

\* A supervisor meets the stop signal: a frame arrives and the loop body
\* breaks, or the stream ends, or the sleep of an except branch returns; the
\* "while not self._stop_event.is_set()" test then ends the coroutine, with
\* its connection closed by the "async with".
SupervisorLeaves(kind) ==
    /\ pstate = "running"
    /\ stopEvent
    /\ Supervising(kind)
    /\ conn[kind] \in {"up", "sleep"}
    /\ conn' = [conn EXCEPT ![kind] = "idle"]
    /\ tasks' = {t \in tasks : ~(t.kind = kind /\ t.st = "running")}
    /\ out' = <<>>
    /\ lastOp' = "supervisor_left"
    /\ lastIn' = None
    /\ UNCHANGED <<pstate, queue, rpc, current, activeSymbol, handles, resyncs, cursor,
                   bids, asks, cyc, booted>>
    /\ UNCHANGED evars
    /\ UNCHANGED <<now, throttleAt, lastTickerEmit, stopEvent, cacheTrades, cacheCandles,
                   tickerEmits, wired>>
    /\ UNCHANGED cvars

\* The loop.stop() scheduled by stop() after the signal runs on the loop:
\* the rest of stop().
StopLands ==
    /\ stopEvent
    /\ pstate = "running"
    /\ ProviderStop

\* BinanceProvider.stop: self._thread.join(timeout=2) returns with the
\* thread alive, the router being in a REST call (timeout=10) of _prefetch.
JoinTimeout ==
    /\ pstate = "joining"
    /\ pstate' = "stopping"
    /\ out' = <<>>
    /\ lastOp' = "stop_returned"
    /\ lastIn' = None
    /\ UNCHANGED <<queue, rpc, current, activeSymbol, handles, tasks, resyncs, cursor,
                   bids, asks, cyc, booted>>
    /\ UNCHANGED evars
    /\ UNCHANGED svars
    /\ UNCHANGED cvars

\* ------------------------------------------------------------------------
\* Specifications
\* ------------------------------------------------------------------------

\* Inputs of the switching environment: few depth payloads, many requests.
RouterSnapshots ==
    {[shape |-> "ok", id |-> 1, bids |-> <<(<<"100", "5">>)>>, asks |-> <<(<<"101", "5">>)>>],
     [shape |-> "ok", id |-> 2, bids |-> <<(<<"99", "5">>), (<<"100", "0">>)>>, asks |-> <<>>],
     NoSnapshot}
        \cup BadSnapshots

RouterFrames ==
    {[U |-> 2, u |-> 2, b |-> <<(<<"100", "0">>)>>, a |-> <<>>],
     [U |-> GapTolerance + 3, u |-> GapTolerance + 3, b |-> <<>>, a |-> <<>>]}

RouterRequests == {<<"BTCUSDT", "1m">>, <<"btcusdt", "5m">>, <<"ethusdt", "1m">>}

\* The provider under symbol/timeframe switching.
Next ==
    \/ \E s \in {"BTCUSDT"}, tf \in {"1m"} : ProviderStart(s, tf)
    \/ \E r \in RouterRequests : SetSymbolTimeframe(r[1], r[2])
    \/ RouterCycle
    \/ RouterCancelled
    \/ \E h \in HistoryResults : PrefetchHistory(h)
    \/ \E snap \in RouterSnapshots : PrefetchDepth(snap)
    \/ TradeFrame
    \/ KlineFrame
    \/ \E f \in RouterFrames, e \in BOOLEAN : DepthFrame(f, e)
    \/ \E s \in DOMAIN resyncs, snap \in RouterSnapshots : ResyncLand(s, snap)

Spec == Init /\ [][Next]_vars

\* The depth replica of one key under every payload of Frames and
\* SnapshotResults.
NextBook ==
    \/ ProviderStart("BTCUSDT", "1m")
    \/ RouterCycle
    \/ \E h \in HistoryResults : PrefetchHistory(h)
    \/ \E snap \in SnapshotResults : PrefetchDepth(snap)
    \/ \E f \in Frames, e \in BOOLEAN : DepthFrame(f, e)
    \/ \E s \in DOMAIN resyncs, snap \in SnapshotResults : ResyncLand(s, snap)

SpecBook == Init /\ [][NextBook]_vars

\* The replica of one key on a stream that runs ahead of it: the bootstrap
\* snapshot is at id 1, the stream later delivers a frame beyond the gap
\* tolerance, and a resync, when its request succeeds, returns a snapshot
\* taken just behind that frame.
SyncBootSnapshots ==
    {[shape |-> "ok", id |-> 1, bids |-> <<(<<"100", "5">>)>>, asks |-> <<(<<"101", "3">>)>>],
     NoSnapshot}

FreshSnapshot ==
    [shape |-> "ok", id |-> GapTolerance + 2, bids |-> <<(<<"99", "5">>)>>, asks |-> <<>>]

SyncFrames ==
    {[U |-> 1, u |-> 2, b |-> <<(<<"99", "3">>)>>, a |-> <<>>],
     [U |-> 2, u |-> 2, b |-> <<(<<"100", "0">>)>>, a |-> <<>>],
     [U |-> GapTolerance + 3, u |-> GapTolerance + 3, b |-> <<(<<"100", "3">>)>>, a |-> <<>>],
     [U |-> GapTolerance + 3, u |-> GapTolerance + 4, b |-> <<>>, a |-> <<(<<"101", "0">>)>>]}

NextSync ==
    \/ ProviderStart("BTCUSDT", "1m")
    \/ RouterCycle
    \/ \E h \in HistoryResults : PrefetchHistory(h)
    \/ \E snap \in SyncBootSnapshots : PrefetchDepth(snap)
    \/ \E f \in SyncFrames, e \in BOOLEAN : DepthFrame(f, e)
    \/ \E snap \in {NoSnapshot} \cup BadSnapshots : ResyncLand("btcusdt", snap)
    \/ ResyncLand("btcusdt", FreshSnapshot)

\* The depth stream keeps delivering each of its frames (a frame that the
\* replica would apply or see as a gap is eventually received), and of the
\* resync requests issued again and again one eventually succeeds.
SpecSync ==
    /\ Init
    /\ [][NextSync]_vars
    /\ \A f \in SyncFrames : WF_<<cursor, resyncs>>(\E e \in BOOLEAN : DepthFrame(f, e))
    /\ SF_<<cursor, resyncs>>(\E snap \in {FreshSnapshot} : ResyncLand("btcusdt", snap))

\* The clock of a process that has been up for a while: perf_counter() is
\* beyond the ticker interval when the first frame arrives.
StreamsInit ==
    /\ ProviderInit
    /\ CacheInit
    /\ now = TickerInterval
    /\ wired = FALSE
    /\ eSymbol = "BTCUSDT"
    /\ eTimeframe = "1m"
    /\ eStarted = FALSE
    /\ eProvider = FALSE
    /\ epc = "idle"

StreamKinds == {"ticker", "trade", "kline", "depth"}

\* /depth responses of the bootstrap: a good one, a failed request, a JSON
\* object without "bids"
StreamSnapshots ==
    {[shape |-> "ok", id |-> 1, bids |-> <<(<<"100", "5">>)>>, asks |-> <<>>],
     NoSnapshot,
     [shape |-> "no_bids", id |-> 1, bids |-> <<>>, asks |-> <<>>]}

StreamFrames ==
    {[U |-> 2, u |-> 2, b |-> <<(<<"100", "0">>)>>, a |-> <<>>],
     [U |-> GapTolerance + 3, u |-> GapTolerance + 3, b |-> <<>>, a |-> <<>>]}

\* The provider with its four supervisors under connection errors, frames of
\* every kind, bootstrap outcomes of every kind, one switch request and stop.
NextStreams ==
    \/ ProviderStart("BTCUSDT", "1m")
    \/ SetSymbolTimeframe("ethusdt", "1m")
    \/ RouterCycle
    \/ RouterCancelled
    \/ \E h \in HistoryOutcomes : PrefetchHistory(h)
    \/ \E snap \in StreamSnapshots : PrefetchDepth(snap)
    \/ \E k \in StreamKinds : ConnError(k)
    \/ \E k \in StreamKinds : Reconnect(k)
    \/ \E m \in TickerMsgs : TickerMessage(m)
    \/ \E m \in TradeMsgs : TradeMessage(m)
    \/ \E m \in KlineMsgs : KlineMessage(m)
    \/ \E m \in DepthMsgs(StreamFrames), e \in BOOLEAN : DepthMessage(m, e)
    \/ \E s \in DOMAIN resyncs : ResyncLand(s, NoSnapshot)
    \/ ProviderStop
    \/ JoinTimeout

SpecStreams == StreamsInit /\ [][NextStreams]_vars

\* The four supervisors under connection errors and frames that raise, with
\* one switch request and stop; the REST calls of the bootstrap fail.
NextConn ==
    \/ ProviderStart("BTCUSDT", "1m")
    \/ SetSymbolTimeframe("ethusdt", "1m")
    \/ RouterCycle
    \/ RouterCancelled
    \/ PrefetchHistory(<<>>)
    \/ PrefetchDepth(NoSnapshot)
    \/ \E k \in StreamKinds : ConnError(k)
    \/ \E k \in StreamKinds : Reconnect(k)
    \/ \E m \in {x \in TickerMsgs : x.k = "badjson"} : TickerMessage(m)
    \/ \E m \in {x \in TradeMsgs : x.k = "badjson"} : TradeMessage(m)
    \/ ProviderStop
    \/ JoinTimeout

\* asyncio.sleep(1) in a supervisor's except branch returns.
SpecConn ==
    /\ StreamsInit
    /\ [][NextConn]_vars
    /\ \A k \in StreamKinds : WF_conn(Reconnect(k))

\* The supervisors of NextConn on streams that the peer may also close
\* normally.
NextClose ==
    \/ NextConn
    \/ \E k \in StreamKinds : StreamEnds(k)

SpecClose == StreamsInit /\ [][NextClose]_vars

\* The four supervisors of one key with stop() taken in its two steps: the
\* signal, and the loop.stop() that reaches the loop later, with frames,
\* stream ends and connection errors in between.
StopSnapshot == [shape |-> "ok", id |-> 1, bids |-> <<(<<"100", "5">>)>>, asks |-> <<>>]

StopFrames == {[U |-> 2, u |-> 2, b |-> <<(<<"100", "0">>)>>, a |-> <<>>]}

NextStop ==
    \/ ProviderStart("BTCUSDT", "1m")
    \/ RouterCycle
    \/ PrefetchHistory(<<>>)
    \/ PrefetchDepth(StopSnapshot)
    \/ \E k \in StreamKinds : ConnError(k)
    \/ \E k \in StreamKinds : Reconnect(k)
    \/ \E k \in StreamKinds : StreamEnds(k)
    \/ \E m \in {x \in TickerMsgs : x.k = "ok"} : TickerMessage(m)
    \/ \E m \in {x \in TradeMsgs : x.k = "ok"} : TradeMessage(m)
    \/ \E m \in {x \in KlineMsgs : x.k = "ok"} : KlineMessage(m)
    \/ \E f \in StopFrames : DepthFrame(f, TRUE)
    \/ StopSignal
    \/ \E k \in StreamKinds : SupervisorLeaves(k)
    \/ StopLands

\* call_soon_threadsafe wakes the loop: the scheduled loop.stop() runs.
SpecStop ==
    /\ StreamsInit
    /\ [][NextStop]_vars
    /\ WF_pstate(StopLands)

\* perf_counter() counts from an unspecified origin: the first frame may
\* arrive before or after the first interval.
TickerInit ==
    /\ ProviderInit
    /\ CacheInit
    /\ now \in {0, TickerInterval}
    /\ wired = FALSE
    /\ eSymbol = "BTCUSDT"
    /\ eTimeframe = "1m"
    /\ eStarted = FALSE
    /\ eProvider = FALSE
    /\ epc = "idle"

\* The ticker supervisor on one connection, with frames at any rate:
\* several frames may arrive within one tick, or none.
NextTicker ==
    \/ ProviderStart("BTCUSDT", "1m")
    \/ Tick(MaxTick)
    \/ \E m \in {x \in TickerMsgs : x.k \in {"ok", "empty"}} : TickerMessage(m)

SpecTicker == TickerInit /\ [][NextTicker]_vars

ThrottleSnapshot ==
    [shape |-> "ok", id |-> 1, bids |-> <<(<<"100", "5">>)>>, asks |-> <<(<<"101", "3">>)>>]

ThrottleFrames ==
    {[U |-> 2, u |-> 2, b |-> <<(<<"100", "0">>)>>, a |-> <<>>],
     [U |-> 3, u |-> 3, b |-> <<(<<"99", "3">>)>>, a |-> <<>>],
     [U |-> 3, u |-> 4, b |-> <<>>, a |-> <<(<<"101", "0">>)>>],
     [U |-> 5, u |-> 5, b |-> <<(<<"100", "3">>)>>, a |-> <<(<<"101", "5">>)>>]}

\* The depth supervisor of one key on the clock: diff frames at any rate,
\* connection errors, and the throttle test of _depth_loop.
NextThrottle ==
    \/ ProviderStart("BTCUSDT", "1m")
    \/ RouterCycle
    \/ PrefetchHistory(<<>>)
    \/ PrefetchDepth(ThrottleSnapshot)
    \/ Tick(MaxDepthTick)
    \/ \E f \in ThrottleFrames : DepthFrame(f, DepthElapsed)
    \/ ConnError("depth")
    \/ Reconnect("depth")

SpecThrottle == Init /\ [][NextThrottle]_vars

\* The same supervisor with the engine's on_* methods as the provider's
\* callbacks.
DepthCacheInit ==
    /\ ProviderInit
    /\ CacheInit
    /\ now = 0
    /\ wired = TRUE
    /\ eSymbol = "BTCUSDT"
    /\ eTimeframe = "1m"
    /\ eStarted = FALSE
    /\ eProvider = FALSE
    /\ epc = "idle"

SpecDepthCache == DepthCacheInit /\ [][NextThrottle]_vars

\* The replica of one key on a book deeper than the TopN levels of an
\* update event: /depth answers with TopN + 2 levels on each side, or with
\* two spellings of one price, and the stream adds a new best level, a new
\* worst level, or removes the best one.
DeepBids == [i \in 1 .. TopN + 2 |-> <<LevelStrings[TopN + 3 - i], "5">>]

DeepAsks == [i \in 1 .. TopN + 2 |-> <<LevelStrings[TopN + 5 + i], "3">>]

DeepSnapshots ==
    {[shape |-> "ok", id |-> 1, bids |-> DeepBids, asks |-> DeepAsks],
     [shape |-> "ok", id |-> 1, bids |-> <<(<<"100", "3">>), (<<"100.0", "5">>)>>,
      asks |-> <<(<<"101", "3">>)>>]}

DeepFrameIds == {<<2, 2>>, <<2, 3>>, <<3, 3>>}

DeepFrameSides ==
    {<<(<<(<<LevelStrings[TopN + 3], "3">>)>>), (<<>>)>>,
     <<(<<(<<LevelStrings[TopN + 2], "0">>)>>), (<<>>)>>,
     <<(<<(<<"99", "3">>)>>), (<<>>)>>,
     <<(<<>>), (<<(<<LevelStrings[TopN + 5], "5">>)>>)>>,
     <<(<<>>), (<<(<<LevelStrings[2 * TopN + 8], "5">>)>>)>>}

DeepFrames ==
    {[U |-> i[1], u |-> i[2], b |-> s[1], a |-> s[2]] : i \in DeepFrameIds, s \in DeepFrameSides}

NextDeep ==
    \/ ProviderStart("BTCUSDT", "1m")
    \/ RouterCycle
    \/ PrefetchHistory(<<>>)
    \/ \E snap \in DeepSnapshots : PrefetchDepth(snap)
    \/ \E f \in DeepFrames, e \in BOOLEAN : DepthFrame(f, e)

SpecDeep == Init /\ [][NextDeep]_vars

\* A provider constructed with the on_* methods of a CoreDataEngine as its
\* callbacks, as CoreDataEngine documents them ("invoked by the
\* BinanceProvider"); the engine's own start() does not get that far.
FeedInit ==
    /\ ProviderInit
    /\ CacheInit
    /\ now = TickerInterval
    /\ wired = TRUE
    /\ eSymbol = "BTCUSDT"
    /\ eTimeframe = "1m"
    /\ eStarted = FALSE
    /\ eProvider = FALSE
    /\ epc = "idle"

\* The trade and kline supervisors of one key feeding the engine's cache
\* and signals.
NextFeed ==
    \/ ProviderStart("BTCUSDT", "1m")
    \/ RouterCycle
    \/ \E h \in HistoryResults : PrefetchHistory(h)
    \/ PrefetchDepth(NoSnapshot)
    \/ \E m \in TradeMsgs : TradeMessage(m)
    \/ \E m \in KlineMsgs : KlineMessage(m)
    \/ \E k \in {"trade", "kline"} : Reconnect(k)

SpecFeed == FeedInit /\ [][NextFeed]_vars

\* ------------------------------------------------------------------------
\* CacheManager on its own
\* ------------------------------------------------------------------------

\* CacheManager(max_candles, max_trades) with small capacities
CacheSpecInit ==
    /\ ProviderInit
    /\ cacheTrades = EmptyMap
    /\ cacheCandles = EmptyMap
    /\ cacheDepth = EmptyMap
    /\ returned = NoList
    /\ maxCandles \in 0 .. MaxCap
    /\ maxTrades \in 0 .. MaxCap
    /\ now = 0
    /\ wired = FALSE
    /\ eSymbol = "BTCUSDT"
    /\ eTimeframe = "1m"
    /\ eStarted = FALSE
    /\ eProvider = FALSE
    /\ epc = "idle"

\* Candles passed to the cache: three open times, and a second version of
\* the candle of open time 2.
CacheCandles == {Candle(1, 0), Candle(2, 0), Candle(2, 1), Candle(3, 0)}

\* Lists passed to set_history
CacheHistories ==
    {<<>>,
     <<Candle(1, 0)>>,
     <<Candle(1, 0), Candle(2, 0)>>,
     <<Candle(3, 0), Candle(1, 0)>>,
     <<Candle(1, 0), Candle(2, 0), Candle(3, 0)>>,
     <<Candle(1, 0), Candle(2, 0), Candle(2, 1), Candle(3, 0)>>}

CacheTradeInputs == {1, 2}

\* The cache's other variables are left alone by its methods.
CacheFrame ==
    /\ out' = <<>>
    /\ lastIn' = None
    /\ UNCHANGED <<pvarsButLast, evars>>
    /\ UNCHANGED <<now, throttleAt, lastTickerEmit, conn, stopEvent, tickerEmits, wired>>
    /\ UNCHANGED cvars

\* CacheManager.set_history
CacheSetHistory(symbol, timeframe, candles) ==
    /\ cacheCandles' = SetHistory(cacheCandles, symbol, timeframe, candles)
    /\ lastOp' = "set_history"
    /\ UNCHANGED cacheTrades
    /\ CacheFrame

\* CacheManager.append_candle
CacheAppendCandle(symbol, timeframe, candle, closed) ==
    /\ cacheCandles' = AppendCandle(cacheCandles, symbol, timeframe, candle, closed)
    /\ lastOp' = "append_candle"
    /\ UNCHANGED cacheTrades
    /\ CacheFrame

\* CacheManager.append_trade
CacheAppendTrade(symbol, trade) ==
    /\ cacheTrades' = AppendTrade(cacheTrades, symbol, trade)
    /\ lastOp' = "append_trade"
    /\ UNCHANGED cacheCandles
    /\ CacheFrame

NextCache ==
    \/ \E h \in CacheHistories : CacheSetHistory("btcusdt", "1m", h)
    \/ \E k \in CacheCandles, x \in BOOLEAN : CacheAppendCandle("btcusdt", "1m", k, x)
    \/ \E t \in CacheTradeInputs : CacheAppendTrade("btcusdt", t)

SpecCache == CacheSpecInit /\ [][NextCache]_vars

\* ------------------------------------------------------------------------
\* CacheManager with several keys, and a caller holding a returned list
\* ------------------------------------------------------------------------

\* CacheManager(max_candles=1, max_trades=1)
KeysInit ==
    /\ ProviderInit
    /\ cacheTrades = EmptyMap
    /\ cacheCandles = EmptyMap
    /\ cacheDepth = EmptyMap
    /\ returned = NoList
    /\ maxCandles = 1
    /\ maxTrades = 1
    /\ now = 0
    /\ wired = FALSE
    /\ eSymbol = "BTCUSDT"
    /\ eTimeframe = "1m"
    /\ eStarted = FALSE
    /\ eProvider = FALSE
    /\ epc = "idle"

\* Symbols as callers spell them, and timeframes
KeySymbols == {"btcusdt", "BTCUSDT", "ethusdt"}

KeyTimeframes == {"1m", "5m"}

KeyHistories == {<<Candle(2, 0), Candle(1, 0)>>}

KeyCandles == {Candle(1, 0)}

\* The arguments of set_depth
KeyDepths ==
    {[symbol |-> s, bids |-> <<<<100, 1>>>>, asks |-> <<<<101, 1>>>>, id |-> 1] :
        s \in KeySymbols}

\* get_history and get_trades hand the caller the cache's own deque
ListAliasesDequeAlways == TRUE

\* list(self._candles[key]), list(self._trades[key]): a new list is built,
\* the caller does not hold the cache's deque
ListAliasesDeque == FALSE

\* What the cache's methods leave alone besides the cache itself
KeysFrame ==
    /\ out' = <<>>
    /\ lastIn' = None
    /\ UNCHANGED <<pvarsButLast, evars>>
    /\ UNCHANGED <<now, throttleAt, lastTickerEmit, conn, stopEvent, tickerEmits, wired>>
    /\ UNCHANGED <<maxCandles, maxTrades>>

\* CacheManager.get_history: the caller keeps the returned list
CacheGetHistory(symbol, timeframe) ==
    /\ returned' = [kind |-> "history", sym |-> Upper(symbol), tf |-> timeframe,
                    list |-> GetHistory(cacheCandles, symbol, timeframe),
                    shared |-> /\ ListAliasesDeque
                               /\ <<Upper(symbol), timeframe>> \in DOMAIN cacheCandles]
    /\ lastOp' = "get_history"
    /\ UNCHANGED <<cacheCandles, cacheTrades, cacheDepth>>
    /\ KeysFrame

\* CacheManager.get_trades: the caller keeps the returned list
CacheGetTrades(symbol) ==
    /\ returned' = [kind |-> "trades", sym |-> Upper(symbol), tf |-> "",
                    list |-> GetTrades(cacheTrades, symbol),
                    shared |-> ListAliasesDeque /\ Upper(symbol) \in DOMAIN cacheTrades]
    /\ lastOp' = "get_trades"
    /\ UNCHANGED <<cacheCandles, cacheTrades, cacheDepth>>
    /\ KeysFrame

\* CacheManager.set_depth
CacheSetDepth(evt) ==
    /\ cacheDepth' = SetDepth(cacheDepth, evt)
    /\ lastOp' = "set_depth"
    /\ UNCHANGED <<cacheCandles, cacheTrades, returned>>
    /\ KeysFrame

\* The caller empties the list it holds (lst.clear()); an object shared with
\* the cache is emptied in the cache as well.
CallerClears ==
    /\ returned.kind # "none"
    /\ returned.list # <<>>
    /\ returned' = [returned EXCEPT !.list = <<>>]
    /\ cacheCandles' = IF returned.shared /\ returned.kind = "history"
                       THEN MapSet(cacheCandles, <<returned.sym, returned.tf>>, <<>>)
                       ELSE cacheCandles
    /\ cacheTrades' = IF returned.shared /\ returned.kind = "trades"
                      THEN MapSet(cacheTrades, returned.sym, <<>>)
                      ELSE cacheTrades
    /\ lastOp' = "caller_clears"
    /\ UNCHANGED cacheDepth
    /\ KeysFrame

NextKeys ==
    \/ \E s \in KeySymbols, tf \in KeyTimeframes, h \in KeyHistories : CacheSetHistory(s, tf, h)
    \/ \E s \in KeySymbols, tf \in KeyTimeframes, k \in KeyCandles, x \in BOOLEAN :
           CacheAppendCandle(s, tf, k, x)
    \/ \E s \in KeySymbols, t \in CacheTradeInputs : CacheAppendTrade(s, t)
    \/ \E d \in KeyDepths : CacheSetDepth(d)
    \/ \E s \in KeySymbols, tf \in KeyTimeframes : CacheGetHistory(s, tf)
    \/ \E s \in KeySymbols : CacheGetTrades(s)
    \/ CallerClears

SpecKeys == KeysInit /\ [][NextKeys]_vars

\* ------------------------------------------------------------------------
\* CoreDataEngine facade, SymbolState, TimeframeState
\* ------------------------------------------------------------------------

EngineSymbolInputs == {"BTCUSDT", "btcusdt", "BtcUsdt", "ethusdt", "ETHUSDT", "solusdt"}
\* "7x" is a string that is no kline interval
EngineTimeframeInputs == {"1m", "1M", "5m", "5M", "1h", "7x"}

\* SymbolState.__init__ stores initial_symbol.upper(); TimeframeState.__init__
\* stores initial_timeframe as given.
EngineInit ==
    /\ ProviderInit
    /\ CacheInit
    /\ now = 0
    /\ wired = FALSE
    /\ eSymbol \in {Upper(s) : s \in {"BTCUSDT", "ethusdt"}}
    /\ eTimeframe \in {"1m", "1M"}
    /\ eStarted = FALSE
    /\ eProvider = FALSE
    /\ epc = "idle"

\* SymbolState.set: the value stored and returned
SymbolStateSet(stored, symbol) == IF Upper(symbol) = stored THEN stored ELSE Upper(symbol)

\* TimeframeState.set: the value stored and returned
TimeframeStateSet(stored, timeframe) ==
    IF Lower(timeframe) = stored THEN stored ELSE Lower(timeframe)

\* A provider constructor that accepts the engine
ProviderConstructorWorks == FALSE

\* BinanceProvider(engine=self): __init__ takes seven callbacks and no
\* "engine" keyword, so the call raises TypeError.
ProviderConstructorRaises == TRUE

\* The queue after BinanceProvider.set_symbol_timeframe(symbol, timeframe)
Enqueue(q, symbol, timeframe) ==
    IF pstate = "running" THEN Append(q, <<Lower(symbol), timeframe>>) ELSE q

\* CoreDataEngine.start, under the lock: the _started test and set
EngineStartBegin ==
    /\ epc = "idle"
    /\ IF eStarted
       THEN /\ lastOp' = "engine_start_noop"
            /\ UNCHANGED <<eStarted, epc>>
       ELSE /\ eStarted' = TRUE
            /\ epc' = "starting"
            /\ lastOp' = "engine_start_begin"
    /\ out' = <<>>
    /\ UNCHANGED <<eSymbol, eTimeframe, eProvider>>
    /\ lastIn' = None
    /\ UNCHANGED svars
    /\ UNCHANGED cvars
    /\ UNCHANGED <<pstate, queue, rpc, current, activeSymbol, handles, tasks, resyncs,
                   cursor, bids, asks, cyc, booted>>

\* CoreDataEngine.start, the try block: the provider is constructed and
\* started and the initial events are emitted; an exception is reported as a
\* status and _started is cleared.
EngineStartTry ==
    /\ IF ProviderConstructorRaises
       THEN /\ eStarted' = FALSE
            /\ out' = <<[type |-> "Status", text |-> "Error"]>>
            /\ lastOp' = "engine_start_failed"
            /\ UNCHANGED <<eProvider, pstate, queue, rpc, conn, stopEvent, wired>>
       ELSE /\ eProvider' = TRUE
            /\ pstate' = "running"
            /\ conn' = [conn EXCEPT !["ticker"] = "up"]
            /\ stopEvent' = FALSE
            /\ wired' = TRUE
            /\ queue' = <<(<<Lower(eSymbol), eTimeframe>>)>>
            /\ rpc' = "get"
            /\ out' = <<[type |-> "SymbolChanged", symbol |-> eSymbol],
                        [type |-> "TimeframeChanged", timeframe |-> eTimeframe],
                        [type |-> "Status", text |-> "Connected"]>>
            /\ lastOp' = "engine_started"
            /\ UNCHANGED eStarted
    /\ UNCHANGED <<eSymbol, eTimeframe>>
    /\ lastIn' = None
    /\ UNCHANGED <<now, throttleAt, lastTickerEmit, cacheTrades, cacheCandles, tickerEmits>>
    /\ UNCHANGED cvars
    /\ UNCHANGED <<current, activeSymbol, handles, tasks, resyncs, cursor, bids, asks,
                   cyc, booted>>

EngineStartRun ==
    /\ epc = "starting"
    /\ epc' = "idle"
    /\ EngineStartTry

\* CoreDataEngine.start called by a second thread while a first call is in
\* its try block: under the lock it returns if _started is set, and sets it
\* and enters the try block too ("starting2") if a stop() has cleared it.
\* At most two calls are in their try blocks at a time.
EngineStartOverlap ==
    /\ epc = "starting" \/ (epc = "starting2" /\ eStarted)
    /\ IF eStarted
       THEN /\ lastOp' = "engine_start_noop"
            /\ UNCHANGED <<eStarted, epc>>
       ELSE /\ eStarted' = TRUE
            /\ epc' = "starting2"
            /\ lastOp' = "engine_start_begin"
    /\ out' = <<>>
    /\ UNCHANGED <<eSymbol, eTimeframe, eProvider>>
    /\ lastIn' = None
    /\ UNCHANGED svars
    /\ UNCHANGED cvars
    /\ UNCHANGED <<pstate, queue, rpc, current, activeSymbol, handles, tasks, resyncs,
                   cursor, bids, asks, cyc, booted>>

\* The try block of one of two overlapping start() calls
EngineStartRunOverlap ==
    /\ epc = "starting2"
    /\ epc' = "starting"
    /\ EngineStartTry

\* CoreDataEngine.stop
EngineStop ==
    /\ eStarted' = FALSE
    /\ eProvider' = FALSE
    /\ out' = <<>>
    /\ lastOp' = "engine_stop"
    /\ UNCHANGED <<eSymbol, eTimeframe, epc>>
    /\ lastIn' = None
    /\ IF eProvider
       THEN StopEffect
       ELSE UNCHANGED <<pstate, rpc, tasks, resyncs, conn, cyc, stopEvent>>
    /\ UNCHANGED <<now, throttleAt, lastTickerEmit, cacheTrades, cacheCandles, tickerEmits,
                   wired>>
    /\ UNCHANGED cvars
    /\ UNCHANGED <<queue, current, activeSymbol, handles, cursor, bids, asks, booted>>

\* CoreDataEngine.set_symbol
SetSymbol(symbol) ==
    LET prev == eSymbol
        new == SymbolStateSet(eSymbol, symbol)
    IN /\ eSymbol' = new
       /\ IF new = prev
          THEN /\ out' = <<>>
               /\ lastOp' = "set_symbol_noop"
               /\ queue' = queue
          ELSE /\ out' = <<[type |-> "SymbolChanged", symbol |-> new]>>
               /\ lastOp' = "set_symbol"
               /\ queue' = IF eProvider THEN Enqueue(queue, new, eTimeframe) ELSE queue
       /\ UNCHANGED <<eTimeframe, eStarted, eProvider, epc>>
       /\ lastIn' = None
       /\ UNCHANGED svars
       /\ UNCHANGED cvars
       /\ UNCHANGED <<pstate, rpc, current, activeSymbol, handles, tasks, resyncs,
                      cursor, bids, asks, cyc, booted>>

\* CoreDataEngine.set_timeframe
SetTimeframe(timeframe) ==
    LET prev == eTimeframe
        new == TimeframeStateSet(eTimeframe, timeframe)
    IN /\ eTimeframe' = new
       /\ IF new = prev
          THEN /\ out' = <<>>
               /\ lastOp' = "set_timeframe_noop"
               /\ queue' = queue
          ELSE /\ out' = <<[type |-> "TimeframeChanged", timeframe |-> new]>>
               /\ lastOp' = "set_timeframe"
               /\ queue' = IF eProvider THEN Enqueue(queue, eSymbol, new) ELSE queue
       /\ UNCHANGED <<eSymbol, eStarted, eProvider, epc>>
       /\ lastIn' = None
       /\ UNCHANGED svars
       /\ UNCHANGED cvars
       /\ UNCHANGED <<pstate, rpc, current, activeSymbol, handles, tasks, resyncs,
                      cursor, bids, asks, cyc, booted>>

\* The facade under calls from its callers' threads.
NextEngine ==
    \/ EngineStartBegin
    \/ EngineStartRun
    \/ EngineStop
    \/ \E s \in EngineSymbolInputs : SetSymbol(s)
    \/ \E tf \in EngineTimeframeInputs : SetTimeframe(tf)

SpecEngine == EngineInit /\ [][NextEngine]_vars

\* start() and stop() of the facade called from concurrent threads, with
\* symbol changes in between.
NextStart ==
    \/ EngineStartBegin
    \/ EngineStartRun
    \/ EngineStartOverlap
    \/ EngineStartRunOverlap
    \/ EngineStop
    \/ \E s \in EngineSymbolInputs : SetSymbol(s)

SpecStart == EngineInit /\ [][NextStart]_vars

\* Start, switch and stop of the facade and of a provider.
NextLife ==
    \/ EngineStartBegin
    \/ EngineStartRun
    \/ EngineStop
    \/ \E s \in {"ethusdt"} : SetSymbol(s)
    \/ ProviderStart("BTCUSDT", "1m")
    \/ \E r \in {<<"ethusdt", "1m">>, <<"btcusdt", "5m">>} : SetSymbolTimeframe(r[1], r[2])
    \/ RouterCycle
    \/ RouterCancelled
    \/ \E h \in HistoryResults : PrefetchHistory(h)
    \/ \E snap \in SyncBootSnapshots : PrefetchDepth(snap)
    \/ TradeFrame
    \/ ProviderStop
    \/ JoinTimeout

SpecLife == EngineInit /\ [][NextLife]_vars

\* ------------------------------------------------------------------------
\* Properties
\* ------------------------------------------------------------------------

AllPrices == {99, 100, 101}

DiffOps == {"diff_applied", "diff_gap", "diff_dropped"}

DepthRunning == \E t \in tasks : t.kind = "depth" /\ t.st = "running"

\* The frame has both ids, is not stale (u <= L_known) and is no gap
\* (U > L_known + 1).
Contiguous(f, c) == f.U >= 1 /\ f.u >= 1 /\ f.u > c /\ f.U <= c + 1

\* after is before with the changes of levels applied: a price named in
\* levels is absent if its last quantity is zero and holds that quantity
\* otherwise; a price not named is as before.
SideApplied(before, after, levels) ==
    /\ DOMAIN after \subseteq AllPrices
    /\ \A p \in AllPrices :
        LET named == {i \in 1 .. Len(levels) : ParseFloat(levels[i][1]) = p}
        IN IF named = {}
           THEN /\ (p \in DOMAIN after) = (p \in DOMAIN before)
                /\ p \in DOMAIN before => after[p] = before[p]
           ELSE LET last == CHOOSE i \in named : \A j \in named : j <= i
                    qty == ParseFloat(levels[last][2])
                IN IF qty = 0
                   THEN p \notin DOMAIN after
                   ELSE p \in DOMAIN after /\ after[p] = qty

\* m holds exactly the entries of levels with a quantity above zero.
SideIsSnapshot(m, levels) ==
    /\ DOMAIN m \subseteq AllPrices
    /\ \A p \in AllPrices :
        LET kept == {i \in 1 .. Len(levels) :
                        ParseFloat(levels[i][1]) = p /\ ParseFloat(levels[i][2]) > 0}
        IN IF kept = {}
           THEN p \notin DOMAIN m
           ELSE /\ p \in DOMAIN m
                /\ m[p] = ParseFloat(levels[CHOOSE i \in kept : \A j \in kept : j <= i][2])

\* C1: on a reconciled replica (cursor > 0) a depth diff with first_id >
\* cursor + 1 leaves bids, asks and the cursor as they were, builds no
\* DepthUpdateEvent and starts a resync.
C1_GapFrameDiscarded ==
    [][(lastOp' \in DiffOps /\ cursor > 0 /\ lastIn'[2] >= 1 /\ lastIn'[1] > cursor + 1)
         => /\ bids' = bids
            /\ asks' = asks
            /\ cursor' = cursor
            /\ out' = <<>>
            /\ InFlight(resyncs') = InFlight(resyncs) + 1]_vars

\* C2: a depth diff that is neither stale nor a gap is applied level by
\* level (zero removes, any other quantity is stored, other prices keep their
\* size), the cursor becomes its last_id and the sorted lists are returned.
C2_DiffApplied ==
    \A f \in Frames :
        Contiguous(f, cursor) =>
            LET r == ApplyDepthDiff(f, cursor, bids, asks)
            IN /\ SideApplied(bids, r.bids, f.b)
               /\ SideApplied(asks, r.asks, f.a)
               /\ r.cursor = f.u
               /\ r.ret = <<SortedBy(r.bids, TRUE), SortedBy(r.asks, FALSE), f.u>>
               /\ ~r.resync

\* C2 witness: the frame (U 2, u 2, bids [(100, 0)]) was applied to the
\* replica {bids {100: 5}, asks {101: 3}, cursor 1}.
C2_Witness ==
    /\ lastOp = "diff_applied"
    /\ lastIn = <<2, 2>>
    /\ bids = EmptyMap
    /\ asks = (101 :> 3)
    /\ cursor = 2
    /\ out # <<>>

\* C3: a depth diff with last_id <= cursor changes nothing and builds no
\* event, and a frame that was applied is dropped when it is delivered again.
C3_StaleFrameDropped ==
    /\ \A f \in Frames :
        LET once == ApplyDepthDiff(f, cursor, bids, asks)
            twice == ApplyDepthDiff(f, once.cursor, once.bids, once.asks)
        IN /\ f.u <= cursor =>
                /\ once.bids = bids /\ once.asks = asks /\ once.cursor = cursor
                /\ once.ret = None /\ ~once.resync
           /\ once.ret # None =>
                /\ twice.bids = once.bids /\ twice.asks = once.asks
                /\ twice.cursor = once.cursor
                /\ twice.ret = None /\ ~twice.resync
    /\ (lastOp \in DiffOps /\ lastIn[2] < cursor) => lastOp = "diff_dropped" /\ out = <<>>

\* C3 witness: a frame older than the cursor of a non-empty replica was
\* delivered and dropped.
C3_Witness ==
    /\ lastOp = "diff_dropped"
    /\ lastIn = <<1, 1>>
    /\ cursor = 2
    /\ DOMAIN bids # {}

\* C4: when a well-formed snapshot is applied, by the router's bootstrap or
\* by a resync, bids and asks become exactly its entries with a size above
\* zero, whatever they held before, and the cursor becomes its last_update_id.
C4_SnapshotReplaces ==
    [][\A snap \in RouterSnapshots :
         (/\ lastOp' \in {"bootstrap_snapshot", "resync_snapshot"}
          /\ snap.shape = "ok"
          /\ PrefetchDepth(snap) \/ \E s \in DOMAIN resyncs : ResyncLand(s, snap))
         => /\ SideIsSnapshot(bids', snap.bids)
            /\ SideIsSnapshot(asks', snap.asks)
            /\ \A p \in DOMAIN bids' : bids'[p] > 0
            /\ \A p \in DOMAIN asks' : asks'[p] > 0
            /\ cursor' = snap.id]_vars

\* C4 witness: a resync replaced a replica by the snapshot {bids [(99, 5),
\* (100, 0)], asks [], last_update_id 2}.
C4_Witness ==
    /\ lastOp = "resync_snapshot"
    /\ bids = (99 :> 5)
    /\ asks = EmptyMap
    /\ cursor = 2

\* C5: no entry of bids or asks has a size <= 0.
C5_NoNonPositiveSize ==
    /\ \A p \in DOMAIN bids : bids[p] > 0
    /\ \A p \in DOMAIN asks : asks[p] > 0

StreamTypes == {"Trade", "CandleUpdate", "DepthUpdate"}

\* C8: the history and depth requests of a switch run only when every
\* supervisor has terminated; supervisors are started only by the step that
\* ends the bootstrap, after its events; so there is at most one supervisor
\* of each kind, all of one key, that key has been bootstrapped, and every
\* stream event is of the bootstrapped key.
C8_SwitchOrder ==
    /\ [](/\ rpc \in {"history", "depth"} => tasks = {}
          /\ \A t1, t2 \in tasks :
                /\ t1.kind = t2.kind => t1 = t2
                /\ t1.symbol = t2.symbol /\ t1.timeframe = t2.timeframe
          /\ \A t \in tasks : booted = <<t.symbol, t.timeframe>>
          /\ (tasks # {} /\ rpc = "get") => booted = current
          /\ \A i \in 1 .. Len(out) :
                out[i].type \in StreamTypes =>
                    booted # None /\ out[i].symbol = Upper(booted[1]))
    /\ [][(tasks' \ tasks # {} /\ \E t \in tasks' \ tasks : t.st = "running")
            => /\ rpc = "depth" /\ rpc' = "get"
               /\ tasks = {}
               /\ tasks' = {Task(Kinds[i], current, "running") : i \in 1 .. 3}
               /\ \A i \in 1 .. Len(out') : out'[i].type = "DepthSnapshot"]_vars

\* C8 witness: after a switch away from a key with running supervisors the
\* snapshot of the new key was published and its three supervisors started.
C8_Witness ==
    /\ lastOp = "bootstrap_snapshot"
    /\ cyc.prev # None
    /\ cyc.cancels = 3
    /\ Cardinality(tasks) = 3
    /\ \A t \in tasks : <<t.symbol, t.timeframe>> = current /\ t.st = "running"

\* C7: set_symbol / set_timeframe with the active value (after normalizing)
\* change nothing, emit nothing and enqueue nothing; with another value they
\* store it normalized, emit one changed event and enqueue one request.
C7_SetSymbolTimeframe ==
    [][/\ \A s \in EngineSymbolInputs :
            SetSymbol(s) =>
                IF Upper(s) = eSymbol
                THEN eSymbol' = eSymbol /\ out' = <<>> /\ queue' = queue
                ELSE /\ eSymbol' = Upper(s)
                     /\ out' = <<[type |-> "SymbolChanged", symbol |-> Upper(s)]>>
                     /\ Len(queue') = Len(queue) + 1
       /\ \A tf \in EngineTimeframeInputs :
            SetTimeframe(tf) =>
                IF Lower(tf) = eTimeframe
                THEN eTimeframe' = eTimeframe /\ out' = <<>> /\ queue' = queue
                ELSE /\ eTimeframe' = Lower(tf)
                     /\ out' = <<[type |-> "TimeframeChanged", timeframe |-> Lower(tf)]>>
                     /\ Len(queue') = Len(queue) + 1]_vars

\* C9: while a resync is in flight a depth diff changes nothing, builds no
\* event and starts no further resync.
C9_OneResyncInFlight ==
    [][(InFlight(resyncs) > 0 /\ lastOp' \in DiffOps)
         => /\ bids' = bids
            /\ asks' = asks
            /\ cursor' = cursor
            /\ out' = <<>>
            /\ resyncs' = resyncs]_vars

GapDetected ==
    IF lastOp \in DiffOps THEN cursor # 0 /\ lastIn[1] > cursor + GapTolerance ELSE FALSE

\* The last step was a resync that replaced the replica and published it.
SnapshotApplied ==
    IF lastOp = "resync_snapshot"
    THEN out = <<DepthSnapshotEvent("btcusdt", bids, asks, cursor)>>
    ELSE FALSE

SupervisorsOfCurrent ==
    \A i \in 1 .. 3 :
        \E t \in tasks :
            t.kind = Kinds[i] /\ t.st = "running" /\ <<t.symbol, t.timeframe>> = current

\* C12: a bootstrap whose REST calls fail (a failed request, a malformed
\* body) still ends with the trade, kline and depth supervisors of the new
\* key started and the router back at its queue; a history step that brings
\* nothing goes on to the depth snapshot.
C12_BootstrapFailureTolerated ==
    [][/\ (lastOp' \in {"bootstrap_failed", "bootstrap_error"} /\ ~stopEvent)
            => (pstate' = "running" /\ rpc' = "get" /\ SupervisorsOfCurrent')
       /\ (rpc = "history" /\ lastOp' \in {"prefetch_history", "bootstrap_error"})
            => rpc' = "depth"]_vars

\* C13: as long as stop() has not been called on a started provider, the
\* router task and the ticker supervisor are running.
C13_NeverStopsByItself ==
    (pstate # "new" /\ ~stopEvent) => (pstate = "running" /\ rpc \notin {"off", "dead"})

\* C14: a supervisor that is sleeping after a connection error, while its
\* task runs, connects again; the step of a connection error leaves the
\* supervisor tasks, the router and the provider as they are.
C14_Reconnects ==
    /\ \A k \in StreamKinds :
          (IF Supervising(k) THEN conn[k] = "sleep" ELSE FALSE)
              ~> (IF Supervising(k) THEN conn[k] = "up" ELSE TRUE)
    /\ [][lastOp' = "conn_error"
            => (tasks' = tasks /\ rpc' = rpc /\ pstate' = pstate /\ queue' = queue)]_vars

\* C14 witness: the depth supervisor connected again after a connection
\* error while the router waits at its queue.
C14_Witness ==
    /\ lastOp = "reconnect"
    /\ conn["depth"] = "up"
    /\ Supervising("depth")
    /\ rpc = "get"
    /\ pstate = "running"

\* A step that receives a frame that fails to parse, on any supervisor.
MalformedFrameStep ==
    \/ \E m \in TradeMsgs : m.k # "ok" /\ TradeMessage(m)
    \/ \E m \in KlineMsgs : m.k # "ok" /\ KlineMessage(m)
    \/ \E m \in TickerMsgs : m.k \notin {"ok", "empty"} /\ TickerMessage(m)
    \/ \E m \in DepthMsgs(StreamFrames), e \in BOOLEAN : m.k # "ok" /\ DepthMessage(m, e)

\* C15: a frame that fails to parse is dropped: the connections stay as
\* they are, nothing is emitted, and the replica, the resync tasks and the
\* supervisor tasks are unchanged.
C15_MalformedFrameDropped ==
    [][MalformedFrameStep
         => /\ conn' = conn
            /\ out' = <<>>
            /\ bids' = bids /\ asks' = asks /\ cursor' = cursor
            /\ resyncs' = resyncs /\ tasks' = tasks]_vars

\* Six consecutive emissions span five intervals: 5 * 0.4 s = 2 s, which
\* is 40 ticks of 50 ms.
BurstTicks == 5 * TickerInterval

\* C16: two consecutive TickersEvents are at least 0.4 s apart, so a window
\* of 2 s of frames holds at most 5 of them; an emitted TickersEvent carries
\* the tickers of the frame received in that step, and a step that is not an
\* emission publishes nothing.
C16_TickerThrottle ==
    /\ [](\A i \in 1 .. Len(tickerEmits) - 1 :
             tickerEmits[i + 1] - tickerEmits[i] >= TickerInterval)
    /\ [](\A i \in 1 .. Len(tickerEmits) - 5 :
             tickerEmits[i + 5] - tickerEmits[i] >= BurstTicks)
    /\ [][IF lastOp' = "tickers"
          THEN /\ out' = <<[type |-> "TickersEvent", tickers |-> lastIn'[1]]>>
               /\ tickerEmits' = Append(tickerEmits, now)
               /\ lastTickerEmit' = now
          ELSE /\ out' = <<>>
               /\ tickerEmits' = tickerEmits
               /\ lastTickerEmit' = lastTickerEmit]_vars

\* C16 witness: six TickersEvents, the sixth 2 s after the first and
\* carrying the tickers of the frame that triggered it.
C16_Witness ==
    /\ Len(tickerEmits) = 6
    /\ tickerEmits[6] - tickerEmits[1] = BurstTicks
    /\ lastOp = "tickers"
    /\ lastIn = <<2>>

\* The depth diff passes the id tests of _apply_depth_diff.
Applicable(f) == ~MissingIds(f) /\ ~IsStale(f, cursor) /\ ~IsGap(f, cursor)

Cached(c, key) == IF key \in DOMAIN c THEN c[key] ELSE <<>>

\* C18: every trade frame and every kline frame that parses yields, in the
\* step that receives it, exactly one cache write followed by exactly one
\* event for the same item (so events follow the arrival order of their
\* frames, and the cache holds the item when the event is emitted); a frame
\* that does not parse yields neither.
C18_StreamOrder ==
    [][/\ \A m \in TradeMsgs :
            (TradeMessage(m) /\ ParseTrade(m).res = "value")
                => /\ out' = <<[type |-> "append_trade", symbol |-> "BTCUSDT",
                                trade |-> ParseTrade(m).v],
                               [type |-> "TradeEvent", trade |-> ParseTrade(m).v]>>
                   /\ cacheTrades'["BTCUSDT"]
                        = Append(Cached(cacheTrades, "BTCUSDT"), ParseTrade(m).v)
       /\ \A m \in KlineMsgs :
            (KlineMessage(m) /\ ParseKline(m).res = "value")
                => /\ Len(out') = 2
                   /\ out'[1].type = "append_candle" /\ out'[2].type = "CandleUpdate"
                   /\ out'[1].candle = Candle(m.t, 0) /\ out'[2].candle = Candle(m.t, 0)
                   /\ out'[1].closed = m.x /\ out'[2].closed = m.x
                   /\ out'[2].symbol = "BTCUSDT" /\ out'[2].timeframe = "1m"
                   /\ LET dq == cacheCandles'[<<"BTCUSDT", "1m">>]
                      IN dq[Len(dq)] = Candle(m.t, 0)
       /\ lastOp' \in {"frame_dropped", "frame_error"}
            => (out' = <<>> /\ cacheTrades' = cacheTrades /\ cacheCandles' = cacheCandles)]_vars

\* C18 witness: trade 2 arrived after trade 1; both are cached in that
\* order and the event of trade 2 was the last thing emitted.
C18_Witness ==
    /\ lastOp = "trade"
    /\ Cached(cacheTrades, "BTCUSDT") = <<1, 2>>
    /\ Len(out) = 2
    /\ out[2] = [type |-> "TradeEvent", trade |-> 2]

\* C19: stop() of the facade leaves it not started and without a provider;
\* once stop() of a started provider has returned, the stop flag is set, the
\* router task is gone and no supervisor task is left.
C19_StopQuiesces ==
    [][/\ lastOp' = "engine_stop" => (~eStarted' /\ ~eProvider')
       /\ (pstate' \in {"stopped", "stopping"} /\ lastOp' \in {"stop", "stop_returned"})
            => (stopEvent' /\ rpc' = "off" /\ tasks' = {})]_vars

\* C20: set_timeframe with a string that is no kline interval leaves the
\* active timeframe as it is, emits no event and enqueues nothing.
C20_UnsupportedTimeframeRejected ==
    [][SetTimeframe("7x")
         => (eTimeframe' = eTimeframe /\ out' = <<>> /\ queue' = queue)]_vars

\* C21: every candle buffer holds at most max_candles entries and every
\* trade buffer at most max_trades; an append to a full buffer drops the
\* oldest entry and keeps the others in their order, followed by the new
\* one.
C21_BoundedFifo ==
    /\ [](/\ \A k \in DOMAIN cacheCandles : Len(cacheCandles[k]) <= maxCandles
          /\ \A k \in DOMAIN cacheTrades : Len(cacheTrades[k]) <= maxTrades)
    /\ [][/\ \A t \in CacheTradeInputs :
                (/\ CacheAppendTrade("btcusdt", t)
                 /\ maxTrades > 0
                 /\ Len(GetTrades(cacheTrades, "btcusdt")) = maxTrades)
                    => GetTrades(cacheTrades', "btcusdt")
                         = Tail(GetTrades(cacheTrades, "btcusdt")) \o <<t>>
          /\ \A k \in CacheCandles :
                LET old == GetHistory(cacheCandles, "btcusdt", "1m")
                IN (/\ CacheAppendCandle("btcusdt", "1m", k, TRUE)
                    /\ maxCandles > 0
                    /\ Len(old) = maxCandles
                    /\ k.t > old[Len(old)].t)
                       => GetHistory(cacheCandles', "btcusdt", "1m") = Tail(old) \o <<k>>]_vars

\* C21 witness: a full trade buffer of capacity 2 took a third trade and
\* dropped the first.
C21_Witness ==
    /\ lastOp = "append_trade"
    /\ maxTrades = 2
    /\ GetTrades(cacheTrades, "btcusdt") = <<2, 1>>
    /\ maxCandles = 2
    /\ GetHistory(cacheCandles, "btcusdt", "1m") = <<Candle(2, 0), Candle(3, 0)>>

\* C22: on a non-empty buffer a closed candle with an open_time beyond the
\* last entry's is appended behind the entries held (the oldest leaving a
\* full buffer), one with an open_time up to the last entry's replaces the
\* last entry; and appending any closed candle a second time changes
\* nothing.
C22_ClosedCandle ==
    /\ [][\A k \in CacheCandles :
            LET old == GetHistory(cacheCandles, "btcusdt", "1m")
                new == GetHistory(cacheCandles', "btcusdt", "1m")
                n == Len(old)
            IN (CacheAppendCandle("btcusdt", "1m", k, TRUE) /\ n > 0)
                 => IF k.t > old[n].t
                    THEN /\ new[Len(new)] = k
                         /\ Len(new) = (IF n < maxCandles THEN n + 1 ELSE n)
                         /\ SubSeq(new, 1, Len(new) - 1)
                              = SubSeq(old, n - Len(new) + 2, n)
                    ELSE /\ Len(new) = n
                         /\ new = [old EXCEPT ![n] = k]]_vars
    /\ [](\A k \in CacheCandles :
            LET once == AppendCandle(cacheCandles, "btcusdt", "1m", k, TRUE)
            IN AppendCandle(once, "btcusdt", "1m", k, TRUE) = once)

\* C22 witness: the closed candle of open time 2 was corrected in place
\* behind the candle of open time 1.
C22_Witness ==
    /\ lastOp = "append_candle"
    /\ maxCandles = 2
    /\ GetHistory(cacheCandles, "btcusdt", "1m") = <<Candle(1, 0), Candle(2, 1)>>

\* The last n elements of a list
LastN(seq, n) == IF Len(seq) <= n THEN seq ELSE SubSeq(seq, Len(seq) - n + 1, Len(seq))

\* C23: after set_history the key's buffer is the last min(len, max_candles)
\* candles of the list given, in their order, whatever the buffer held.
C23_SetHistoryReplaces ==
    [][\A h \in CacheHistories :
         CacheSetHistory("btcusdt", "1m", h)
            => GetHistory(cacheCandles', "btcusdt", "1m") = LastN(h, maxCandles)]_vars

\* C23 witness: a history of four candles replaced a buffer of capacity 2
\* that held other candles: its last two are cached.
C23_Witness ==
    /\ lastOp = "set_history"
    /\ maxCandles = 2
    /\ GetHistory(cacheCandles, "btcusdt", "1m") = <<Candle(2, 1), Candle(3, 0)>>

\* CacheManager.get_depth, with no levels and id 0 standing for None
GetDepth(c, symbol) ==
    IF Upper(symbol) \in DOMAIN c THEN c[Upper(symbol)]
    ELSE [bids |-> <<>>, asks |-> <<>>, id |-> 0]

\* C24: once the replica of the active symbol has applied a snapshot or a
\* diff, the cache's depth slot of that symbol holds the replica's top
\* levels and its cursor.
C24_DepthSlotCurrent ==
    (DepthRunning /\ cursor > 0)
        => GetDepth(cacheDepth, activeSymbol)
             = [bids |-> Take(SortedBy(bids, TRUE), TopN),
                asks |-> Take(SortedBy(asks, FALSE), TopN),
                id |-> cursor]

\* C25: a router cycle whose coalesced request is the active key cancels
\* and starts no supervisor, makes no REST request, publishes nothing and
\* leaves the replica and its cursor as they are.
C25_SameKeyNoOp ==
    [][(/\ rpc = "get"
        /\ queue # <<>>
        /\ lastOp' \in {"router_noop", "router_switch"}
        /\ Coalesce(queue) = current)
          => /\ tasks' = tasks
             /\ handles' = handles
             /\ rpc' = "get"
             /\ out' = <<>>
             /\ current' = current
             /\ activeSymbol' = activeSymbol
             /\ bids' = bids /\ asks' = asks /\ cursor' = cursor
             /\ resyncs' = resyncs
             /\ conn' = conn]_vars

\* C25 witness: a request for the active key was taken while the three
\* supervisors of that key run on a replica with a snapshot.
C25_Witness ==
    /\ lastOp = "router_noop"
    /\ SupervisorsOfCurrent
    /\ cursor > 0
    /\ rpc = "get"

\* C26: no step of the router (taking a burst, cancelling a supervisor, the
\* two halves of the bootstrap, starting the supervisors) cancels or restarts
\* the ticker supervisor: its connection and its throttle state are the same
\* before and after the step.
C26_TickerUntouched ==
    [][lastOp' \in {"router_noop", "router_switch", "router_cancelled",
                    "prefetch_history", "bootstrap_snapshot", "bootstrap_failed",
                    "bootstrap_error"}
          => /\ conn'["ticker"] = conn["ticker"]
             /\ lastTickerEmit' = lastTickerEmit
             /\ tickerEmits' = tickerEmits]_vars

\* The prices listed by one side of a depth event
Prices(list) == {list[i][1] : i \in 1 .. Len(list)}

\* The list is in strictly descending (desc) or strictly ascending price order
StrictlyOrdered(list, desc) ==
    \A i \in 1 .. Len(list) - 1 :
        IF desc THEN list[i][1] > list[i + 1][1] ELSE list[i][1] < list[i + 1][1]

\* The list holds min(TopN, size) levels of the map m, with their sizes, and
\* every level of m it leaves out is worse than every level it lists.
BestOf(list, m, desc) ==
    /\ Len(list) = IF Cardinality(DOMAIN m) <= TopN THEN Cardinality(DOMAIN m) ELSE TopN
    /\ \A i \in 1 .. Len(list) : list[i][1] \in DOMAIN m /\ list[i][2] = m[list[i][1]]
    /\ \A p \in (DOMAIN m) \ Prices(list) : \A i \in 1 .. Len(list) :
          IF desc THEN p < list[i][1] ELSE p > list[i][1]

C28_SequenceContiguity ==
    [][(lastOp' \in DiffOps /\ lastIn'[1] >= 1 /\ lastIn'[2] >= 1)
         => /\ lastOp' = "diff_applied"
                => cursor < lastIn'[1] /\ lastIn'[1] <= lastIn'[2]
            /\ (lastIn'[1] <= cursor \/ lastIn'[1] > lastIn'[2])
                => /\ bids' = bids /\ asks' = asks /\ cursor' = cursor
                   /\ InFlight(resyncs') = InFlight(resyncs) + 1]_vars

\* C29: no depth diff mutates the maps or the cursor of a replica that is
\* still EMPTY; stated for the replica right after the bootstrap of the first
\* key, whose snapshot request failed: the diff that arrives then leaves
\* bids, asks and the cursor as they are and builds no event.
C29_NoDiffOnEmptyReplica ==
    [][(lastOp = "bootstrap_failed" /\ cursor = 0 /\ lastOp' \in DiffOps)
         => /\ bids' = bids
            /\ asks' = asks
            /\ cursor' = cursor
            /\ out' = <<>>]_vars

\* C30: while the active symbol stays the same, no step (bootstrap
\* snapshot, resync snapshot, applied diff) lowers the cursor.
C30_CursorMonotonic ==
    [][activeSymbol' = activeSymbol => cursor' >= cursor]_vars

\* C31: the step in which a supervisor loses its connection, by an error
\* or by the peer ending the stream, puts that supervisor into its reconnect
\* delay: it is not attempting a connection right after the step.
C31_DelayBeforeReconnect ==
    [][lastOp' \in {"conn_error", "stream_ended"}
          => \E k \in StreamKinds : conn[k] = "up" /\ conn'[k] = "sleep"]_vars

\* C32: once the stop signal is set every supervisor ends with its
\* connection closed, whether or not a frame arrives; from the signal on no
\* supervisor opens a connection and no TradeEvent, CandleUpdate,
\* DepthUpdateEvent or TickersEvent is emitted.
C32_CooperativeStop ==
    /\ stopEvent ~> (\A k \in StreamKinds : conn[k] = "idle")
    /\ [][stopEvent
            => /\ \A k \in StreamKinds : conn'[k] = "up" => conn[k] = "up"
               /\ \A i \in 1 .. Len(out') :
                     out'[i].type \notin {"TradeEvent", "CandleUpdate", "DepthUpdate",
                                          "TickersEvent"}]_vars

\* C32 witness: after the signal the trade supervisor met it at a frame and
\* left, while the depth supervisor is still connected and stop()'s
\* loop.stop() has not run yet.
C32_Witness ==
    /\ stopEvent
    /\ pstate = "running"
    /\ lastOp = "supervisor_left"
    /\ conn["trade"] = "idle"
    /\ conn["depth"] = "up"
    /\ cursor > 0

\* The open_times of the list are strictly increasing
IncreasingTimes(seq) == \A i \in 1 .. Len(seq) - 1 : seq[i].t < seq[i + 1].t

\* C33: append_candle, closed or forming, with a candle of any open_time,
\* takes a buffer whose open_times are strictly increasing (the empty one
\* included) to a buffer whose open_times are strictly increasing.
C33_CandleOrderKept ==
    [][\A k \in CacheCandles, x \in BOOLEAN :
         (/\ CacheAppendCandle("btcusdt", "1m", k, x)
          /\ IncreasingTimes(GetHistory(cacheCandles, "btcusdt", "1m")))
            => IncreasingTimes(GetHistory(cacheCandles', "btcusdt", "1m"))]_vars

\* The candles of the list
Entries(seq) == {seq[i] : i \in 1 .. Len(seq)}

\* C34: in a buffer with room for two candles, a candle stored by
\* append_candle(closed=True) is still held, unchanged, after a forming
\* update for a newer open_time; so the kline sequence forming(t1),
\* closed(t1), forming(t2), closed(t2) ends with the closed candles of t1 and
\* t2.
C34_ClosedCandleKept ==
    maxCandles >= 2 =>
        \A k1 \in CacheCandles, k2 \in CacheCandles :
            k1.t < k2.t =>
                LET stored == AppendCandle(cacheCandles, "btcusdt", "1m", k1, TRUE)
                    formed == AppendCandle(stored, "btcusdt", "1m", k2, FALSE)
                    closed == AppendCandle(formed, "btcusdt", "1m", k2, TRUE)
                IN /\ k1 \in Entries(GetHistory(formed, "btcusdt", "1m"))
                   /\ {k1, k2} \subseteq Entries(GetHistory(closed, "btcusdt", "1m"))

\* C35: the replica holds data of the router's active symbol only. Every
\* snapshot written to the replica, by a bootstrap or by a resync, is one of
\* the active symbol and is published under it; and when the router has
\* switched to another symbol and that symbol's bootstrap snapshot failed,
\* nothing of the previous symbol is left in the replica.
C35_ReplicaOfActiveSymbol ==
    /\ [][lastOp' \in {"bootstrap_snapshot", "resync_snapshot"}
            => out'[1].symbol = Upper(activeSymbol')]_vars
    /\ []((/\ lastOp = "bootstrap_failed"
           /\ cyc.prev # None)
             => (cyc.prev[1] # current[1]
                   => bids = EmptyMap /\ asks = EmptyMap /\ cursor = 0))

\* C36: no accepted change is lost on the way to the router. A set_symbol
\* or set_timeframe call that changes the state right after start() has
\* returned leaves, as the last request of the provider's queue, the
\* (symbol, timeframe) the state holders now hold, which is the key the
\* router converges to.
C36_ChangeReachesRouter ==
    [][(/\ lastOp \in {"engine_started", "engine_start_failed"}
        /\ lastOp' \in {"set_symbol", "set_timeframe"})
          => /\ queue' # <<>>
             /\ queue'[Len(queue')] = <<Lower(eSymbol'), eTimeframe'>>]_vars

\* C37: a step that handles a depth frame, to the end or up to an
\* exception, changes bids or asks only together with the cursor: no level
\* of a frame is in the replica while the cursor has its old value.
C37_DiffAtomic ==
    [][(lastOp' \in DiffOps \cup {"frame_error"} /\ cursor' = cursor)
          => bids' = bids /\ asks' = asks]_vars

C39_StateNormalized ==
    /\ [](eSymbol = Upper(eSymbol) /\ eTimeframe = Lower(eTimeframe))
    /\ [][\A tf \in EngineTimeframeInputs :
            (SetTimeframe(tf) /\ Lower(tf) = Lower(eTimeframe))
                => eTimeframe' = eTimeframe /\ out' = <<>>]_vars


\* Every key of the old map but the given one is in the new map with the
\* same value, and the new map has no other key.
OthersKept(old, new, key) ==
    /\ DOMAIN new \subseteq (DOMAIN old) \cup {key}
    /\ \A k \in (DOMAIN old) \ {key} : k \in DOMAIN new /\ new[k] = old[k]

\* C40: set_history and append_candle on (symbol, timeframe) change no other
\* candle buffer, no trade buffer and no depth slot; append_trade and
\* set_depth on a symbol change no candle buffer and no trade buffer or depth
\* slot of another symbol; two spellings of a symbol that differ by letter
\* case name the same buffers; and emptying a list returned by get_history or
\* get_trades changes nothing in the cache.
C40_OwnKeyOnly ==
    /\ [][ /\ \A s \in KeySymbols, tf \in KeyTimeframes :
               (\/ \E h \in KeyHistories : CacheSetHistory(s, tf, h)
                \/ \E k \in KeyCandles, x \in BOOLEAN : CacheAppendCandle(s, tf, k, x))
                   => /\ OthersKept(cacheCandles, cacheCandles', <<Upper(s), tf>>)
                      /\ cacheTrades' = cacheTrades
                      /\ cacheDepth' = cacheDepth
           /\ \A s \in KeySymbols :
               (\E t \in CacheTradeInputs : CacheAppendTrade(s, t))
                   => /\ cacheCandles' = cacheCandles
                      /\ OthersKept(cacheTrades, cacheTrades', Upper(s))
                      /\ cacheDepth' = cacheDepth
           /\ \A d \in KeyDepths :
               CacheSetDepth(d)
                   => /\ cacheCandles' = cacheCandles
                      /\ cacheTrades' = cacheTrades
                      /\ OthersKept(cacheDepth, cacheDepth', Upper(d.symbol))
           /\ CallerClears
                   => /\ cacheCandles' = cacheCandles
                      /\ cacheTrades' = cacheTrades
                      /\ cacheDepth' = cacheDepth]_vars
    /\ [](\A s1 \in KeySymbols, s2 \in KeySymbols :
            Upper(s1) = Upper(s2)
                => /\ GetTrades(cacheTrades, s1) = GetTrades(cacheTrades, s2)
                   /\ GetDepth(cacheDepth, s1) = GetDepth(cacheDepth, s2)
                   /\ \A t \in CacheTradeInputs :
                        AppendTrade(cacheTrades, s1, t) = AppendTrade(cacheTrades, s2, t)
                   /\ \A tf \in KeyTimeframes :
                        /\ GetHistory(cacheCandles, s1, tf) = GetHistory(cacheCandles, s2, tf)
                        /\ \A h \in KeyHistories :
                             SetHistory(cacheCandles, s1, tf, h)
                                 = SetHistory(cacheCandles, s2, tf, h)
                        /\ \A k \in KeyCandles, x \in BOOLEAN :
                             AppendCandle(cacheCandles, s1, tf, k, x)
                                 = AppendCandle(cacheCandles, s2, tf, k, x))

\* A caller has emptied the list get_history returned for a key whose buffer
\* still holds a candle, while another candle buffer, a trade buffer of the
\* other symbol and a depth slot exist.
C40_Witness ==
    /\ lastOp = "caller_clears"
    /\ returned.kind = "history"
    /\ returned.sym = "BTCUSDT"
    /\ returned.tf = "1m"
    /\ GetHistory(cacheCandles, "btcusdt", "1m") # <<>>
    /\ GetHistory(cacheCandles, "ETHUSDT", "5m") # <<>>
    /\ GetTrades(cacheTrades, "ethusdt") # <<>>
    /\ "BTCUSDT" \in DOMAIN cacheDepth


====
